---- MODULE Spec2Model ----
(***************************************************************************)
(* Promotional offer and redemption engine of saborly-backend.             *)
(*                                                                         *)
(* One Offer document lives in the store, until an admin deletes it.       *)
(* Request handlers of routes/offer.js and the methods of models/offer.js  *)
(* act on it.  A                                                           *)
(* handler reads the document with findById into a local copy, works on    *)
(* the copy and writes it back with save().  Mongoose sends a save as a    *)
(* delta: a push on a document array becomes $push (the elements are       *)
(* appended to whatever the store holds and __v is incremented, with no    *)
(* version condition), an assignment to a number becomes $set with the     *)
(* locally computed value.  The store applies each update atomically, so   *)
(* the interleaving points of a handler are its awaits: after findById     *)
(* and after each save.                                                    *)
(*                                                                         *)
(* The clock runs while requests are in flight: a handler reads new Date() *)
(* at some instant between the moment it resumed after an await and the    *)
(* moment its next write reaches the store; a handler that reads it twice  *)
(* reads two instants, the second not before the first.                    *)
(*                                                                         *)
(* Nine specifications share the definitions: Spec (claims and recorded    *)
(* usages on the stored document), SpecClaims (claims alone), SpecBrowse   *)
(* (pricing requests next to claims and usages), SpecAdmin (admin edits    *)
(* and deletions next to them), SpecDates (admin edits of the date window  *)
(* and deletions), SpecEditRace (admin edits of non-ledger fields and      *)
(* deletions next to claims and recorded usages), SpecOrderClaims          *)
(* (claim-with-order with any platform in the body), and two that apply    *)
(* the pure computations to enumerated inputs: SpecPure (validity,         *)
(* eligibility, platform, discount) and SpecCatalogue (listing, look-up by *)
(* coupon code, best offer of an item).                                    *)
(*                                                                         *)
(* Money is given and returned in cents and computed on doubles, as the    *)
(* code computes it; dates are counted in clock ticks.                     *)
(***************************************************************************)
EXTENDS Integers, Sequences, FiniteSets, TLC

\* ------------------------------------------------------------------ bounds
NumRequests == 2
MaxTime == 2
MaxClock == 1
NumOffers == 3

\* ------------------------------------------------------------- constants
\* usageLimit: { type: Number, default: null }
NULL == -1
\* userUsageLimit: { type: Number, default: 1 }
DefaultUserUsageLimit == 1
\* let bestOffer = null; findOne finds none: no offer, where ids start at 1
NoOffer == 0

Requests == 1..NumRequests
Devices == {"d1", "d2"}
Users == {"u1", "u2"}
\* deviceId = null (applyToUser's default argument)
NoDevice == "null"
\* platform not given by the caller (undefined)
NoPlatform == "undefined"
Platforms == {"mobile"}

VARIABLES
  offer,    \* the Offer document as the store holds it
  deleted,  \* whether the store has lost the document to DELETE /:id
  now,      \* the clock (new Date())
  pc,       \* per request: where its handler stands
  op,       \* per request: the operation it runs
  arg,      \* per request: deviceId, userId, platform of the call
  resumedAt,\* per request: the instant its handler resumed after its last await
  doc,      \* per request: the handler's local copy of the document
  result,   \* per request: the response it sent
  inp,      \* input of a pure computation (offer fields and context)
  out       \* result of a pure computation

vars == <<offer, deleted, now, pc, op, arg, resumedAt, doc, result, inp, out>>

\* ------------------------------------------------------- the Offer model

\* A variant of isValid whose window excludes the end date (now < endDate).
isValidStrictEnd(o, t) ==
  /\ o.isActive
  /\ t >= o.startDate
  /\ t < o.endDate
  /\ (o.usageLimit = NULL \/ o.usageCount < o.usageLimit)

\* offerSchema.virtual('isValid'), read at instant t (new Date()).
isValid(o, t) ==
  /\ o.isActive
  /\ t >= o.startDate
  /\ t <= o.endDate
  /\ (o.usageLimit = NULL \/ o.usageCount < o.usageLimit)

\* offerSchema.methods.hasDeviceClaimed
hasDeviceClaimed(o, deviceId) ==
  IF ~o.isOneTimePerDevice THEN FALSE
  ELSE \E i \in 1..Len(o.claimedDevices) : o.claimedDevices[i].deviceId = deviceId

\* the element claimByDevice and applyToUser push on claimedDevices
ClaimEntry(deviceId, userId, t) ==
  [deviceId |-> deviceId, userId |-> userId, claimedAt |-> t]

\* the element applyToUser and claim-with-order push on usageHistory
UsageEntry(userId, orderId, deviceId, discountAmount, platform, t) ==
  [user |-> userId, order |-> orderId, deviceId |-> deviceId,
   discountAmount |-> discountAmount, platform |-> platform, usedAt |-> t]

\* The document a fresh Offer.create leaves in the store: empty ledger.
NewOffer(active, oneTime, limit, userLimit) ==
  [isActive |-> active, startDate |-> 0, endDate |-> 1,
   usageLimit |-> limit, usageCount |-> 0, userUsageLimit |-> userLimit,
   isOneTimePerDevice |-> oneTime,
   claimedDevices |-> <<>>, usageHistory |-> <<>>, version |-> 0]

\* A variant of isValidForPlatform for which 'all' in platforms opens nothing:
\* only an empty platforms or the platform itself passes.
isValidForPlatformWithoutAll(o, platform) ==
  IF platform = NoPlatform THEN TRUE
  ELSE IF o.platforms = {} THEN TRUE
  ELSE platform \in o.platforms

\* offerSchema.methods.isValidForPlatform
isValidForPlatform(o, platform) ==
  IF platform = NoPlatform THEN TRUE
  ELSE IF o.platforms = {} THEN TRUE
  ELSE "all" \in o.platforms \/ platform \in o.platforms

\* The platform filter the three queries add when
\* `platform && platform !== 'all'`: platforms holds 'all' or the platform,
\* or is missing or empty.
platformFilter(o, platform) ==
  IF platform = NoPlatform \/ platform = "all" THEN TRUE
  ELSE "all" \in o.platforms \/ platform \in o.platforms \/ o.platforms = {}

\* offerSchema.methods.canUserUse
canUserUse(o, userId, deviceId, t) ==
  IF ~isValid(o, t) THEN FALSE
  ELSE IF o.isOneTimePerDevice /\ deviceId # NoDevice /\ hasDeviceClaimed(o, deviceId)
  THEN FALSE
  ELSE Cardinality({i \in 1..Len(o.usageHistory) : o.usageHistory[i].user = userId})
         < o.userUsageLimit

\* ------------------------------------------- numbers of the JavaScript

\* The amounts of the code are JavaScript numbers: IEEE 754 doubles, every
\* operation rounded to the nearest double, ties to even.  A double is
\* [neg, m, e] and stands for (-1)^neg * m * 2^e, with m a natural number of
\* exactly 53 bits, or 0.  m is written in base 2^15, least significant
\* digit first, without leading zeros, so that 0 is <<>>.  The model gives
\* and takes amounts in cents: Dollars(c) is the double the code holds for
\* an amount of c cents.
Base == 2 ^ 15

RECURSIVE BigFromInt(_)
BigFromInt(n) ==
  IF n = 0 THEN <<>> ELSE <<n % Base>> \o BigFromInt(n \div Base)

RECURSIVE BigToInt(_)
BigToInt(a) ==
  IF a = <<>> THEN 0 ELSE Head(a) + Base * BigToInt(Tail(a))

RECURSIVE BigTrim(_)
BigTrim(a) ==
  IF a = <<>> THEN a
  ELSE IF a[Len(a)] = 0 THEN BigTrim(SubSeq(a, 1, Len(a) - 1))
  ELSE a

BigTail(a) == IF a = <<>> THEN a ELSE Tail(a)
BigHead(a) == IF a = <<>> THEN 0 ELSE Head(a)

\* a * k + c for a digit k >= 1
RECURSIVE BigMulSmall(_, _, _)
BigMulSmall(a, k, c) ==
  IF a = <<>> THEN BigFromInt(c)
  ELSE <<(Head(a) * k + c) % Base>>
         \o BigMulSmall(Tail(a), k, (Head(a) * k + c) \div Base)

\* quotient (with leading zeros) and remainder of a by a digit d >= 1
RECURSIVE BigDivSmall(_, _)
BigDivSmall(a, d) ==
  IF a = <<>> THEN [q |-> <<>>, r |-> 0]
  ELSE LET hi == BigDivSmall(Tail(a), d)
           t == hi.r * Base + Head(a)
       IN [q |-> <<t \div d>> \o hi.q, r |-> t % d]

RECURSIVE BigAdd(_, _, _)
BigAdd(a, b, c) ==
  IF a = <<>> /\ b = <<>> THEN BigFromInt(c)
  ELSE LET t == BigHead(a) + BigHead(b) + c
       IN <<t % Base>> \o BigAdd(BigTail(a), BigTail(b), t \div Base)

\* a - b - c for a >= b + c, with leading zeros
RECURSIVE BigSub(_, _, _)
BigSub(a, b, c) ==
  IF a = <<>> THEN <<>>
  ELSE LET t == Head(a) - BigHead(b) - c
       IN <<IF t < 0 THEN t + Base ELSE t>>
            \o BigSub(Tail(a), BigTail(b), IF t < 0 THEN 1 ELSE 0)

BigLess(a, b) ==
  IF Len(a) # Len(b) THEN Len(a) < Len(b)
  ELSE \E i \in 1..Len(a) :
         /\ a[i] < b[i]
         /\ \A j \in (i + 1)..Len(a) : a[j] = b[j]

RECURSIVE BigMul(_, _)
BigMul(a, b) ==
  IF a = <<>> \/ b = <<>> THEN <<>>
  ELSE LET rest == BigMul(a, Tail(b))
       IN BigAdd(IF Head(b) = 0 THEN <<>> ELSE BigMulSmall(a, Head(b), 0),
                 IF rest = <<>> THEN <<>> ELSE <<0>> \o rest,
                 0)

RECURSIVE SmallBitLen(_)
SmallBitLen(n) == IF n = 0 THEN 0 ELSE 1 + SmallBitLen(n \div 2)

BitLen(a) ==
  IF a = <<>> THEN 0 ELSE 15 * (Len(a) - 1) + SmallBitLen(a[Len(a)])

\* a * 2^s
ShiftLeft(a, s) ==
  IF a = <<>> THEN a
  ELSE [i \in 1..(s \div 15) |-> 0] \o BigMulSmall(a, 2 ^ (s % 15), 0)

\* floor(a / 2^t), and whether a bit was shifted out
ShiftRight(a, t) ==
  IF t \div 15 >= Len(a) THEN [q |-> <<>>, sticky |-> a # <<>>]
  ELSE LET d == BigDivSmall(SubSeq(a, t \div 15 + 1, Len(a)), 2 ^ (t % 15))
       IN [q |-> BigTrim(d.q),
           sticky |-> d.r # 0 \/ \E i \in 1..(t \div 15) : a[i] # 0]

DZero == [neg |-> FALSE, m |-> <<>>, e |-> 0]

\* The double nearest to n * 2^e, or to a little more than n * 2^e when
\* sticky (then n has more than 53 bits): ties go to the even m.
RoundToDouble(neg, n, sticky, e) ==
  IF n = <<>> THEN DZero
  ELSE IF BitLen(n) <= 53
  THEN [neg |-> neg, m |-> ShiftLeft(n, 53 - BitLen(n)), e |-> e - (53 - BitLen(n))]
  ELSE LET t == BitLen(n) - 53
           s1 == ShiftRight(n, t - 1)
           q == BigTrim(BigDivSmall(s1.q, 2).q)
           up == s1.q[1] % 2 = 1 /\ (sticky \/ s1.sticky \/ q[1] % 2 = 1)
           m == IF up THEN BigAdd(q, <<1>>, 0) ELSE q
       IN IF BitLen(m) = 54
          THEN [neg |-> neg, m |-> BigTrim(BigDivSmall(m, 2).q), e |-> e + t + 1]
          ELSE [neg |-> neg, m |-> m, e |-> e + t]

\* the double of an integer
DInt(n) ==
  RoundToDouble(n < 0, BigFromInt(IF n < 0 THEN -n ELSE n), FALSE, 0)

\* x * y
DMul(x, y) ==
  IF x.m = <<>> \/ y.m = <<>> THEN DZero
  ELSE RoundToDouble(x.neg # y.neg, BigMul(x.m, y.m), FALSE, x.e + y.e)

\* x / k for an integer k, 1 <= k < 2^15
DDivInt(x, k) ==
  IF x.m = <<>> THEN DZero
  ELSE LET d == BigDivSmall(<<0, 0>> \o x.m, k)
       IN RoundToDouble(x.neg, BigTrim(d.q), d.r # 0, x.e - 30)

\* x + y
DAdd(x, y) ==
  IF x.m = <<>> THEN y
  ELSE IF y.m = <<>> THEN x
  ELSE LET e0 == IF x.e < y.e THEN x.e ELSE y.e
           a == ShiftLeft(x.m, x.e - e0)
           b == ShiftLeft(y.m, y.e - e0)
       IN IF x.neg = y.neg THEN RoundToDouble(x.neg, BigAdd(a, b, 0), FALSE, e0)
          ELSE IF a = b THEN DZero
          ELSE IF BigLess(a, b)
          THEN RoundToDouble(y.neg, BigTrim(BigSub(b, a, 0)), FALSE, e0)
          ELSE RoundToDouble(x.neg, BigTrim(BigSub(a, b, 0)), FALSE, e0)

\* x - y
DSub(x, y) == DAdd(x, [y EXCEPT !.neg = ~@])

\* x < y
DLess(x, y) == LET d == DSub(x, y) IN d.m # <<>> /\ d.neg

\* Math.max(x, y)
DMax(x, y) == IF DLess(x, y) THEN y ELSE x

\* Math.round(x): floor(x + 1/2) as an integer, from q = floor(2|x|).
MathRound(x) ==
  IF x.m = <<>> THEN 0
  ELSE LET twice == IF x.e + 1 >= 0
                    THEN [q |-> ShiftLeft(x.m, x.e + 1), sticky |-> FALSE]
                    ELSE ShiftRight(x.m, -(x.e + 1))
           q == BigToInt(twice.q)
       IN IF ~x.neg THEN (q + 1) \div 2
          ELSE -(IF twice.sticky /\ q % 2 = 1 THEN (q + 1) \div 2 ELSE q \div 2)

\* the double of an amount of c cents: the number c/100 as the code is given it
Dollars(c) == DDivInt(DInt(c), 100)

\* Math.round(x * 100) / 100, in cents
RoundCents(x) == MathRound(DMul(x, DInt(100)))

\* Math.min
Min(a, b) == IF a <= b THEN a ELSE b

\* case 'free-delivery': discount = 2.99
FreeDeliveryDiscount == 299

\* eligibleItems of calculateDiscount: the order's items for which some
\* element of this.appliedToItems has a toString() equal to
\* item.foodItem.toString().  An element that is an id prints as the id.  On
\* a document whose appliedToItems was populated the elements are FoodItem
\* documents, which print as the whole document and equal no id: no item is
\* eligible.
eligibleItems(o, items) ==
  IF "appliedToItems" \in o.populated
  THEN SelectSeq(items, LAMBDA item : FALSE)
  ELSE SelectSeq(items, LAMBDA item : item.foodItem \in o.appliedToItems)

\* eligibleItems.forEach(item => { freeQuantity = Math.floor(item.quantity / 2);
\* discount += freeQuantity * item.unitPrice }), from discount = 0: the
\* items are added in the order of the list.
RECURSIVE freeItemsTotal(_)
freeItemsTotal(items) ==
  IF items = <<>> THEN DZero
  ELSE DAdd(freeItemsTotal(SubSeq(items, 1, Len(items) - 1)),
            DMul(DInt(items[Len(items)].quantity \div 2),
                 Dollars(items[Len(items)].unitPrice)))

\* A variant of discountBeforeRounding whose fixed amount is this.value
\* whatever the subtotal (no Math.min).
discountBeforeRoundingFixedUncapped(o, subtotal, items) ==
  CASE o.type = "percentage" ->
         LET discount == DDivInt(DMul(Dollars(subtotal), DInt(o.value)), 100) IN
         IF o.maxDiscountAmount # NULL /\ o.maxDiscountAmount # 0
            /\ DLess(Dollars(o.maxDiscountAmount), discount)
         THEN Dollars(o.maxDiscountAmount)
         ELSE discount
    [] o.type = "fixed-amount" -> Dollars(o.value)
    [] o.type = "free-delivery" -> Dollars(FreeDeliveryDiscount)
    [] o.type = "buy-one-get-one" ->
         IF o.appliedToItems # {}
         THEN freeItemsTotal(eligibleItems(o, items))
         ELSE DZero
    [] OTHER -> DZero

\* offerSchema.methods.calculateDiscount, the switch on this.type: the
\* discount before the final rounding, as the double the code holds, for a
\* subtotal, amounts and prices given in cents and a percentage given as an
\* integer.  A maxDiscountAmount that is unset or 0 is falsy and caps
\* nothing.  free-delivery is the literal 2.99 and reads nothing of the
\* order.  buy-one-get-one adds to the initial 0 only when appliedToItems is
\* not empty.  combo has no case in the switch: the initial 0 stays.
discountBeforeRounding(o, subtotal, items) ==
  CASE o.type = "percentage" ->
         LET discount == DDivInt(DMul(Dollars(subtotal), DInt(o.value)), 100) IN
         IF o.maxDiscountAmount # NULL /\ o.maxDiscountAmount # 0
            /\ DLess(Dollars(o.maxDiscountAmount), discount)
         THEN Dollars(o.maxDiscountAmount)
         ELSE discount
    [] o.type = "fixed-amount" -> Dollars(Min(o.value, subtotal))
    [] o.type = "free-delivery" -> Dollars(FreeDeliveryDiscount)
    [] o.type = "buy-one-get-one" ->
         IF o.appliedToItems # {}
         THEN freeItemsTotal(eligibleItems(o, items))
         ELSE DZero
    [] OTHER -> DZero

\* offerSchema.methods.calculateDiscount(orderDetails), which destructures
\* { subtotal, items, deliveryType } and reads no other field of the order:
\* the minimum order amount is checked first, the delivery type second, then
\* the discount is computed and rounded.  reason stands for the message of
\* the rejection ("MinOrderNotMet": 'Minimum order amount is $...',
\* "DeliveryTypeMismatch": 'Offer not valid for this delivery type').
calculateDiscount(o, orderDetails) ==
  IF orderDetails.subtotal < o.minOrderAmount
  THEN [valid |-> FALSE, reason |-> "MinOrderNotMet", discount |-> 0]
  ELSE IF o.deliveryTypes # {} /\ orderDetails.deliveryType \notin o.deliveryTypes
  THEN [valid |-> FALSE, reason |-> "DeliveryTypeMismatch", discount |-> 0]
  ELSE [valid |-> TRUE, reason |-> "none",
        discount |-> RoundCents(discountBeforeRounding(o, orderDetails.subtotal,
                                                       orderDetails.items))]

NoArg == [deviceId |-> NoDevice, userId |-> "u1", platform |-> NoPlatform]
\* the local copy of a handler that holds none (before findById, after the response)
NoDoc == NewOffer(FALSE, FALSE, NULL, DefaultUserUsageLimit)
NoInp == [kind |-> "none"]
NoOut == [kind |-> "none"]

\* ------------------------------------------------------------------ Init
Init ==
  /\ \E active \in BOOLEAN, oneTime \in BOOLEAN, limit \in {NULL, 1},
        userLimit \in {DefaultUserUsageLimit} :
       offer = NewOffer(active, oneTime, limit, userLimit)
  /\ now = 0
  /\ deleted = FALSE
  /\ pc = [r \in Requests |-> "idle"]
  /\ op = [r \in Requests |-> "none"]
  /\ arg = [r \in Requests |-> NoArg]
  /\ resumedAt = [r \in Requests |-> 0]
  /\ doc = [r \in Requests |-> NoDoc]
  /\ result = [r \in Requests |-> "none"]
  /\ inp = NoInp
  /\ out = NoOut

\* --------------------------------------------------------------- actions

\* The clock advances, whatever the requests are doing.  Its tick is the
\* unit of the offer's date window.  A handler reads new Date() when it runs:
\* between the instant it resumed after an await and the instant its next
\* write reaches the store.
Tick ==
  /\ now < MaxClock
  /\ now' = now + 1
  /\ UNCHANGED <<offer, deleted, pc, op, arg, resumedAt, doc, result, inp, out>>

\* const offer = await Offer.findById(req.params.id): the handler of an
\* incoming request reads the stored document into its local copy.  When
\* the store no longer holds the document findById gives null and the
\* handler responds 404 'Offer not found'; the find of GET
\* /items-with-offers then gives no offer and the handler lists no item.
\* Request slots, device ids and user ids are interchangeable: slots are
\* taken in order, and "d2" ("u2") is used only once "d1" ("u1") has been.
FindById(r, o, a) ==
  /\ pc[r] = "idle"
  /\ \A q \in Requests : q < r => pc[q] # "idle"
  /\ a.deviceId = "d2" => \E q \in Requests : q < r /\ arg[q].deviceId = "d1"
  /\ a.userId = "u2" => \E q \in Requests : q < r /\ arg[q].userId = "u1"
  /\ op' = [op EXCEPT ![r] = o]
  /\ arg' = [arg EXCEPT ![r] = a]
  /\ IF deleted
     THEN /\ pc' = [pc EXCEPT ![r] = "done"]
          /\ result' = [result EXCEPT ![r] =
                          IF o = "price" THEN "NoCandidate" ELSE "NotFound"]
          /\ UNCHANGED <<resumedAt, doc>>
     ELSE /\ pc' = [pc EXCEPT ![r] = "loaded"]
          /\ resumedAt' = [resumedAt EXCEPT ![r] = now]
          /\ doc' = [doc EXCEPT ![r] = offer]
          /\ UNCHANGED result
  /\ UNCHANGED <<offer, deleted, now, inp, out>>

\* POST /:id/claim after findById: the checks on the local copy.
ClaimOutcome(d, deviceId, t) ==
  IF ~isValid(d, t) THEN "Invalid"
  ELSE IF ~d.isOneTimePerDevice THEN "NotOneTime"
  ELSE IF hasDeviceClaimed(d, deviceId) THEN "AlreadyClaimed"
  ELSE "Success"

\* A variant of claimByDevice whose save writes the whole claimedDevices
\* array of the local copy.
claimByDeviceWholeArray(stored, d, deviceId, userId, t) ==
  IF ~d.isOneTimePerDevice \/ hasDeviceClaimed(d, deviceId) THEN stored
  ELSE [stored EXCEPT !.claimedDevices =
                         Append(d.claimedDevices, ClaimEntry(deviceId, userId, t)),
                      !.version = @ + 1]

\* offerSchema.methods.claimByDevice on the local copy d: the update its
\* save() sends, applied to the stored document: $push of the new element
\* on claimedDevices and $inc of __v.  A copy that is not one-time is
\* returned unsaved; a copy that holds the device throws before any write.
claimByDevice(stored, d, deviceId, userId, t) ==
  IF ~d.isOneTimePerDevice \/ hasDeviceClaimed(d, deviceId) THEN stored
  ELSE [stored EXCEPT !.claimedDevices = Append(@, ClaimEntry(deviceId, userId, t)),
                      !.version = @ + 1]

\* A variant of ClaimWrite that pushes and saves before the
\* hasDeviceClaimed check of the handler.
ClaimWritePushFirst(stored, d, deviceId, userId, t, claimedAt) ==
  IF ClaimOutcome(d, deviceId, t) \in {"Success", "AlreadyClaimed"}
  THEN [stored EXCEPT !.claimedDevices =
                         Append(@, ClaimEntry(deviceId, userId, claimedAt)),
                      !.version = @ + 1]
  ELSE stored

\* POST /:id/claim: what the handler leaves in the store.  Only a handler
\* that passed every check reaches claimByDevice.  The checks read the clock
\* at t (offer.isValid), claimByDevice reads it again for claimedAt.
ClaimWrite(stored, d, deviceId, userId, t, claimedAt) ==
  IF ClaimOutcome(d, deviceId, t) = "Success"
  THEN claimByDevice(stored, d, deviceId, userId, claimedAt)
  ELSE stored

\* POST /:id/claim: checks, claimByDevice, response.  The handler ran
\* after its findById returned: offer.isValid read new Date() at an instant
\* t, claimByDevice read it again at an instant tc, not before t; its save
\* reaches the store now.  When the document was deleted in between, the
\* update matches no document: save() rejects and nothing is stored.
Claim(r) ==
  /\ pc[r] = "loaded"
  /\ op[r] = "claim"
  /\ \E t \in resumedAt[r]..now :
       /\ result' = [result EXCEPT ![r] =
                       IF deleted /\ ClaimOutcome(doc[r], arg[r].deviceId, t) = "Success"
                       THEN "DocumentNotFound"
                       ELSE ClaimOutcome(doc[r], arg[r].deviceId, t)]
       /\ \E tc \in t..now :
            offer' = IF deleted THEN offer
                     ELSE ClaimWrite(offer, doc[r], arg[r].deviceId, arg[r].userId,
                                     t, tc)
  /\ pc' = [pc EXCEPT ![r] = "done"]
  /\ resumedAt' = [resumedAt EXCEPT ![r] = 0]
  /\ doc' = [doc EXCEPT ![r] = NoDoc]
  /\ UNCHANGED <<deleted, now, op, arg, inp, out>>

\* POST /:id/claim-with-order after findById: the checks on the local copy
\* (no isValid check), then claimByDevice.
ClaimWithOrderOutcome(d, deviceId) ==
  IF ~d.isOneTimePerDevice THEN "NotOneTime"
  ELSE IF hasDeviceClaimed(d, deviceId) THEN "AlreadyClaimed"
  ELSE "Claimed"

\* POST /:id/claim-with-order, first write: a handler that passed the checks
\* awaits claimByDevice; the others respond.  A save that finds the
\* document deleted rejects and is caught: 500 'Failed to claim offer'.
ClaimWithOrderClaim(r) ==
  /\ pc[r] = "loaded"
  /\ op[r] = "claimWithOrder"
  /\ LET res == ClaimWithOrderOutcome(doc[r], arg[r].deviceId) IN
       IF res = "Claimed" /\ ~deleted
       THEN /\ \E t \in resumedAt[r]..now :
                 /\ offer' = claimByDevice(offer, doc[r], arg[r].deviceId,
                                           arg[r].userId, t)
                 /\ doc' = [doc EXCEPT ![r] =
                              claimByDevice(doc[r], doc[r], arg[r].deviceId,
                                            arg[r].userId, t)]
            /\ pc' = [pc EXCEPT ![r] = "claimed"]
            /\ resumedAt' = [resumedAt EXCEPT ![r] = now]
            /\ UNCHANGED result
       ELSE /\ result' = [result EXCEPT ![r] =
                            IF res = "Claimed" THEN "Failed" ELSE res]
            /\ pc' = [pc EXCEPT ![r] = "done"]
            /\ resumedAt' = [resumedAt EXCEPT ![r] = 0]
            /\ doc' = [doc EXCEPT ![r] = NoDoc]
            /\ UNCHANGED offer
  /\ UNCHANGED <<deleted, now, op, arg, inp, out>>

\* `platform || 'mobile'`, `platform || 'web'`: the platform of the call,
\* or the default when the call gives none.
platformOr(platform, default) ==
  IF platform = NoPlatform THEN default ELSE platform

\* The validation of a pushed usageHistory element by save(): platform has
\* enum ['mobile', 'web'].
usageEntryValid(platform) == platform \in {"mobile", "web"}

\* POST /:id/claim-with-order, second write: offer.usageHistory.push(...)
\* with discountAmount 0 and platform req.body.platform || 'mobile', then
\* save(): $push on usageHistory, $inc of __v.  usageCount is not touched.
\* A pushed element that fails validation rejects the save: nothing is sent.
pushUsage(stored, userId, orderId, deviceId, platform, t) ==
  IF ~usageEntryValid(platformOr(platform, "mobile")) THEN stored
  ELSE [stored EXCEPT !.usageHistory =
                         Append(@, UsageEntry(userId, orderId, deviceId, 0,
                                              platformOr(platform, "mobile"), t)),
                      !.version = @ + 1]

\* POST /:id/claim-with-order after claimByDevice: the usageHistory push at
\* an instant t after the first save returned, the second save and the
\* response.  A save that rejects is caught: the handler responds 500
\* 'Failed to claim offer'; the device written by claimByDevice stays.
ClaimWithOrderUsage(r) ==
  /\ pc[r] = "claimed"
  /\ op[r] = "claimWithOrder"
  /\ \E t \in resumedAt[r]..now :
       offer' = IF deleted THEN offer
                ELSE pushUsage(offer, arg[r].userId, r, arg[r].deviceId,
                               arg[r].platform, t)
  /\ result' = [result EXCEPT ![r] =
                  IF usageEntryValid(platformOr(arg[r].platform, "mobile")) /\ ~deleted
                  THEN "Success" ELSE "Failed"]
  /\ pc' = [pc EXCEPT ![r] = "done"]
  /\ resumedAt' = [resumedAt EXCEPT ![r] = 0]
  /\ doc' = [doc EXCEPT ![r] = NoDoc]
  /\ UNCHANGED <<deleted, now, op, arg, inp, out>>

\* offerSchema.methods.applyToUser on the local copy d: the update its save()
\* sends, applied to the stored document: $push on usageHistory, $set of
\* usageCount to the local value plus one, $push on claimedDevices when the
\* copy is one-time, a device id is given and the copy does not hold it.
\* The method reads the clock twice: usedAt is the new Date() of the usage
\* entry, claimedAt the later new Date() of the claim entry.  The pushed
\* usage has platform || 'web'; when it fails validation the save rejects
\* and nothing is sent.
applyToUser(stored, d, userId, orderId, discountAmount, platform, deviceId, usedAt, claimedAt) ==
  IF ~usageEntryValid(platformOr(platform, "web")) THEN stored
  ELSE
  [stored EXCEPT
     !.usageHistory = Append(@, UsageEntry(userId, orderId, deviceId, discountAmount,
                                 platformOr(platform, "web"), usedAt)),
     !.usageCount = d.usageCount + 1,
     !.claimedDevices =
        IF d.isOneTimePerDevice /\ deviceId # NoDevice /\ ~hasDeviceClaimed(d, deviceId)
        THEN Append(@, ClaimEntry(deviceId, userId, claimedAt))
        ELSE @,
     !.version = @ + 1]

\* RecordUsage: applyToUser on the document the caller read, its first
\* clock read at t and its second at tc, not before t; the promise it
\* returns resolves, or rejects: with the validation error, or because the
\* update finds the document deleted.
RecordUsage(r) ==
  /\ pc[r] = "loaded"
  /\ op[r] = "recordUsage"
  /\ \E t \in resumedAt[r]..now :
       \E tc \in t..now :
         offer' = IF deleted THEN offer
                  ELSE applyToUser(offer, doc[r], arg[r].userId, r, 0, arg[r].platform,
                                   arg[r].deviceId, t, tc)
  /\ result' = [result EXCEPT ![r] =
                  IF ~usageEntryValid(platformOr(arg[r].platform, "web"))
                  THEN "ValidationError"
                  ELSE IF deleted THEN "DocumentNotFound"
                  ELSE "Success"]
  /\ pc' = [pc EXCEPT ![r] = "done"]
  /\ resumedAt' = [resumedAt EXCEPT ![r] = 0]
  /\ doc' = [doc EXCEPT ![r] = NoDoc]
  /\ UNCHANGED <<deleted, now, op, arg, inp, out>>

Next ==
  \/ Tick
  \/ \E r \in Requests, d \in Devices, u \in Users :
       FindById(r, "claim", [deviceId |-> d, userId |-> u, platform |-> NoPlatform])
  \/ \E r \in Requests, d \in Devices, u \in Users, p \in Platforms :
       FindById(r, "claimWithOrder", [deviceId |-> d, userId |-> u, platform |-> p])
  \/ \E r \in Requests, d \in Devices \cup {NoDevice}, u \in Users, p \in Platforms :
       FindById(r, "recordUsage", [deviceId |-> d, userId |-> u, platform |-> p])
  \/ \E r \in Requests : Claim(r)
  \/ \E r \in Requests : ClaimWithOrderClaim(r)
  \/ \E r \in Requests : ClaimWithOrderUsage(r)
  \/ \E r \in Requests : RecordUsage(r)

Spec == Init /\ [][Next]_vars

\* Claim requests alone.
NextClaims ==
  \/ Tick
  \/ \E r \in Requests, d \in Devices, u \in Users :
       FindById(r, "claim", [deviceId |-> d, userId |-> u, platform |-> NoPlatform])
  \/ \E r \in Requests : Claim(r)

SpecClaims == Init /\ [][NextClaims]_vars

\* ------------------------------------------- the pure computations alone

\* The fields of an Offer that eligibility and pricing read and the ledger
\* model leaves out, as findById returns them: no path populated.
Scoped(o, type, value, maxDiscountAmount, minOrderAmount, platforms, deliveryTypes) ==
  [isActive |-> o.isActive, startDate |-> o.startDate, endDate |-> o.endDate,
   usageLimit |-> o.usageLimit, usageCount |-> o.usageCount,
   userUsageLimit |-> o.userUsageLimit, isOneTimePerDevice |-> o.isOneTimePerDevice,
   claimedDevices |-> o.claimedDevices, usageHistory |-> o.usageHistory,
   version |-> o.version,
   type |-> type, value |-> value, maxDiscountAmount |-> maxDiscountAmount,
   minOrderAmount |-> minOrderAmount, platforms |-> platforms,
   deliveryTypes |-> deliveryTypes,
   appliedToItems |-> {}, populated |-> {}, comboItems |-> <<>>,
   comboPrice |-> NULL]

\* .populate(paths) on a document a query returns: the ids under each path
\* are replaced by the documents they refer to.  populated holds the paths
\* that were replaced; appliedToItems keeps the ids, those of its documents.
populate(o, paths) == [o EXCEPT !.populated = @ \cup paths]

NoCtx == [userId |-> "u1", deviceId |-> NoDevice, platform |-> NoPlatform,
          deliveryType |-> "delivery", subtotal |-> 0, items |-> <<>>,
          deliveryFee |-> 0]

\* Offers for isValid, read at every instant up to one past MaxTime.
IsValidInputs ==
  { [kind |-> "isValid",
     offer |-> [NewOffer(active, FALSE, limit, DefaultUserUsageLimit)
                  EXCEPT !.startDate = sd, !.endDate = ed, !.usageCount = count],
     ctx |-> NoCtx] :
      active \in BOOLEAN, limit \in {NULL, 0, 1, 2}, count \in 0..2,
      sd \in 0..MaxTime, ed \in 0..MaxTime }

\* Usage histories and claim lists an offer may hold.
Histories ==
  { <<>>,
    <<UsageEntry("u1", 1, "d1", 0, "mobile", 0)>>,
    <<UsageEntry("u2", 1, NoDevice, 0, "web", 0)>> }
ClaimLists == { <<>>, <<ClaimEntry("d1", "u2", 0)>> }

\* Offers and contexts for the eligibility checks.
EvaluateInputs ==
  { [kind |-> "evaluate",
     offer |-> Scoped([NewOffer(active, oneTime, lc[1], userLimit)
                         EXCEPT !.usageCount = lc[2], !.usageHistory = h,
                                !.claimedDevices = cl],
                      "fixed-amount", 100, NULL, ms[1], pf, dt),
     ctx |-> [NoCtx EXCEPT !.deviceId = dev, !.platform = cpf,
                           !.deliveryType = cdt, !.subtotal = ms[2]]] :
      active \in BOOLEAN, oneTime \in BOOLEAN,
      lc \in {<<NULL, 0>>, <<1, 0>>, <<1, 1>>},
      userLimit \in {DefaultUserUsageLimit, 2}, h \in Histories, cl \in ClaimLists,
      ms \in {<<0, 500>>, <<1000, 500>>, <<1000, 1500>>},
      pf \in {{}, {"all"}, {"mobile"}},
      dt \in {{}, {"delivery"}},
      dev \in {"d1", NoDevice}, cpf \in {"mobile", "web"},
      cdt \in {"delivery", "pickup"} }

\* Offers and orders for the discount.
PriceInputs ==
  { [kind |-> "price",
     offer |-> Scoped(NewOffer(TRUE, FALSE, NULL, DefaultUserUsageLimit),
                      type, value, max, minOrder, {"all"}, dt),
     ctx |-> [NoCtx EXCEPT !.deliveryType = cdt, !.subtotal = subtotal]] :
      type \in {"percentage", "fixed-amount", "free-delivery",
                "buy-one-get-one", "combo"},
      value \in {0, 10, 20, 500, 5000}, max \in {NULL, 0, 500, 10000},
      minOrder \in {0, 1000}, dt \in {{}, {"delivery"}},
      cdt \in {"delivery", "pickup"}, subtotal \in {0, 145, 1000, 3000} }

\* The lines of an order: { foodItem, quantity, unitPrice }.
OrderItems ==
  { [foodItem |-> f, quantity |-> q, unitPrice |-> 1000] :
      f \in {"f1", "f3"}, q \in 0..5 }
    \cup { [foodItem |-> "f2", quantity |-> q, unitPrice |-> 250] : q \in {2, 3} }

\* Buy-one-get-one offers and orders of one or two lines.  The offer is a
\* document as findById returns it, or as findValidOffersForUser returns it,
\* with appliedToItems populated.
BogoInputs ==
  { [kind |-> "price",
     offer |-> populate([Scoped(NewOffer(TRUE, FALSE, NULL, DefaultUserUsageLimit),
                                "buy-one-get-one", 0, NULL, 0, {"all"}, {})
                           EXCEPT !.appliedToItems = applied],
                        paths),
     ctx |-> [NoCtx EXCEPT !.subtotal = 3000, !.items = items]] :
      applied \in {{}, {"f1"}, {"f1", "f2"}},
      paths \in {{}, {"appliedToCategories", "appliedToItems", "excludedItems"}},
      items \in { <<i>> : i \in OrderItems }
                 \cup { <<i, j>> : i \in OrderItems, j \in OrderItems } }

\* The elements of comboItems with the price of the food item each refers
\* to: { foodItem, quantity, price }.
ComboLists ==
  { <<[foodItem |-> "f1", quantity |-> 1, price |-> 1000],
      [foodItem |-> "f2", quantity |-> 1, price |-> p]>> : p \in {800, 1000, 1500} }

\* Combo offers.
ComboInputs ==
  { [kind |-> "price",
     offer |-> [Scoped(NewOffer(TRUE, FALSE, NULL, DefaultUserUsageLimit),
                       "combo", 0, NULL, 0, {"all"}, {})
                  EXCEPT !.comboItems = ci, !.comboPrice = 2000],
     ctx |-> [NoCtx EXCEPT !.subtotal = subtotal]] :
      ci \in ComboLists, subtotal \in {0, 3000} }

\* Free-delivery offers and orders whose caller charges a delivery fee.
FreeDeliveryInputs ==
  { [kind |-> "price",
     offer |-> Scoped(NewOffer(TRUE, FALSE, NULL, DefaultUserUsageLimit),
                      "free-delivery", 0, NULL, 0, {"all"}, {}),
     ctx |-> [NoCtx EXCEPT !.subtotal = subtotal, !.deliveryFee = fee]] :
      subtotal \in {0, 3000}, fee \in {0, 299, 500} }

\* Offers of every platforms set, and requests that name a platform, name
\* 'all' or name none.
PlatformInputs ==
  { [kind |-> "platform",
     offer |-> Scoped(NewOffer(TRUE, FALSE, NULL, DefaultUserUsageLimit),
                      "fixed-amount", 100, NULL, 0, pf, {}),
     ctx |-> [NoCtx EXCEPT !.platform = cpf]] :
      pf \in SUBSET {"mobile", "web", "all"},
      cpf \in {"mobile", "web", "all", NoPlatform} }

InitPure ==
  /\ offer = NoDoc
  /\ deleted = FALSE
  /\ pc = [r \in Requests |-> "idle"]
  /\ op = [r \in Requests |-> "none"]
  /\ arg = [r \in Requests |-> NoArg]
  /\ resumedAt = [r \in Requests |-> 0]
  /\ doc = [r \in Requests |-> NoDoc]
  /\ result = [r \in Requests |-> "none"]
  /\ inp \in IsValidInputs \cup EvaluateInputs \cup PriceInputs
              \cup BogoInputs \cup ComboInputs \cup FreeDeliveryInputs
              \cup PlatformInputs
  /\ now \in IF inp.kind = "price" THEN {0}
             ELSE IF inp.kind = "evaluate" THEN 0..MaxTime
             ELSE 0..(MaxTime + 1)
  /\ out = NoOut

\* offer.isValid is read.
ReadIsValid ==
  /\ inp.kind = "isValid"
  /\ out = NoOut
  /\ out' = [kind |-> "isValid", value |-> isValid(inp.offer, now)]
  /\ UNCHANGED <<offer, deleted, now, pc, op, arg, resumedAt, doc, result, inp>>

\* The eligibility checks of an offer for a context: canUserUse,
\* isValidForPlatform and the checks calculateDiscount starts with.
Evaluate ==
  /\ inp.kind = "evaluate"
  /\ out = NoOut
  /\ out' = [kind |-> "evaluate",
             canUserUse |-> canUserUse(inp.offer, inp.ctx.userId, inp.ctx.deviceId, now),
             isValidForPlatform |-> isValidForPlatform(inp.offer, inp.ctx.platform),
             calc |-> calculateDiscount(inp.offer, inp.ctx)]
  /\ UNCHANGED <<offer, deleted, now, pc, op, arg, resumedAt, doc, result, inp>>

\* offer.calculateDiscount(orderDetails)
Price ==
  /\ inp.kind = "price"
  /\ out = NoOut
  /\ out' = [kind |-> "price",
             calc |-> calculateDiscount(inp.offer, inp.ctx)]
  /\ UNCHANGED <<offer, deleted, now, pc, op, arg, resumedAt, doc, result, inp>>

\* The platform check of an offer for a request, by the method
\* isValidForPlatform and by the filter the queries add.
CheckPlatforms ==
  /\ inp.kind = "platform"
  /\ out = NoOut
  /\ out' = [kind |-> "platform",
             isValidForPlatform |-> isValidForPlatform(inp.offer, inp.ctx.platform),
             matched |-> platformFilter(inp.offer, inp.ctx.platform)]
  /\ UNCHANGED <<offer, deleted, now, pc, op, arg, resumedAt, doc, result, inp>>

NextPure ==
  \/ ReadIsValid
  \/ Evaluate
  \/ Price
  \/ CheckPlatforms

SpecPure == InitPure /\ [][NextPure]_vars

\* ------------------------------------- the catalogue and the best offer

\* An offer of the collection: the fields listing and selection read on top
\* of the scoped ones.  createdAt is the rank of insertion, so is the id.
Catalogued(o, id, priority, isFeatured, couponCode) ==
  [id |-> id, priority |-> priority, isFeatured |-> isFeatured, createdAt |-> id,
   couponCode |-> couponCode] @@ o

\* The sort keys of the two listings.  createdAt is distinct per offer, so
\* each orders a set of offers totally.
\* .sort({ priority: -1, createdAt: -1 }) of findValidOffersForUser
beforeByPriorityCreatedAt(p, o) ==
  \/ p.priority > o.priority
  \/ p.priority = o.priority /\ p.createdAt > o.createdAt

\* .sort({ priority: -1, isFeatured: -1, createdAt: -1 }) of GET /
beforeByPriorityFeaturedCreatedAt(p, o) ==
  \/ p.priority > o.priority
  \/ p.priority = o.priority /\ p.isFeatured /\ ~o.isFeatured
  \/ p.priority = o.priority /\ p.isFeatured = o.isFeatured /\ p.createdAt > o.createdAt

\* The offers of a set as the sequence the sort of findValidOffersForUser
\* returns: each offer stands after the offers that sort before it.
sortedByPriorityCreatedAt(S) ==
  [i \in 1..Cardinality(S) |->
     CHOOSE o \in S : Cardinality({p \in S : beforeByPriorityCreatedAt(p, o)}) = i - 1]

\* The same for the sort of GET /.
sortedByPriorityFeaturedCreatedAt(S) ==
  [i \in 1..Cardinality(S) |->
     CHOOSE o \in S :
       Cardinality({p \in S : beforeByPriorityFeaturedCreatedAt(p, o)}) = i - 1]

\* offerSchema.statics.findValidOffersForUser(userId, orderDetails, platform,
\* deviceId) over the collection at instant t: the query (active, window,
\* usage cap not reached, platform), the populate, the sort, then the device
\* filter.  orderDetails is not read.
findValidOffersForUser(collection, orderDetails, platform, deviceId, t) ==
  LET found == { populate(o, {"appliedToCategories", "appliedToItems", "excludedItems"}) :
                   o \in { x \in collection :
                             /\ x.isActive
                             /\ x.startDate <= t
                             /\ x.endDate >= t
                             /\ (x.usageLimit = NULL \/ x.usageCount < x.usageLimit)
                             /\ platformFilter(x, platform) } }
      offers == sortedByPriorityCreatedAt(found)
  IN IF deviceId # NoDevice
     THEN SelectSeq(offers, LAMBDA o :
                      IF o.isOneTimePerDevice THEN ~hasDeviceClaimed(o, deviceId)
                      ELSE TRUE)
     ELSE offers

\* GET /: the query (active, window, platform), the sort and .lean(), which
\* returns plain objects without the methods of the model.  The query reads
\* the clock twice: startDate is compared with the instant t of the first
\* new Date(), endDate with the instant tEnd of the second.  With a deviceId
\* the filter calls offer.hasDeviceClaimed on the first one-time offer, and
\* the map calls offer.toObject() on the first offer that is left: both are
\* undefined on a lean object and the call throws a TypeError.  Only an
\* empty list is answered.
getOffers(collection, platform, deviceId, t, tEnd) ==
  LET found == { o \in collection :
                   /\ o.isActive
                   /\ o.startDate <= t
                   /\ o.endDate >= tEnd
                   /\ platformFilter(o, platform) }
      offers == sortedByPriorityFeaturedCreatedAt(found)
  IN IF deviceId # NoDevice /\ \E i \in 1..Len(offers) : offers[i].isOneTimePerDevice
     THEN [kind |-> "TypeError", offers |-> <<>>]
     ELSE IF offers # <<>>
     THEN [kind |-> "TypeError", offers |-> <<>>]
     ELSE [kind |-> "ok", offers |-> <<>>]

\* A coupon code is the sequence of its characters, each the number of its
\* code point: "SAVE" is <<83, 65, 86, 69>>.  String.prototype.toUpperCase
\* maps every character by the Unicode default case conversion (Unicode 17).
\* CaseRanges lists the characters whose upper case is one other character,
\* as <<first, last, step, offset>>: the characters first, first + step, ...,
\* last have their upper case offset further.  SpecialCasing lists the
\* characters whose upper case is more than one character, with it.
CaseRanges ==
  <<
    <<97, 122, 1, -32>>, <<181, 181, 1, 743>>, <<224, 246, 1, -32>>,
    <<248, 254, 1, -32>>, <<255, 255, 1, 121>>, <<257, 303, 2, -1>>,
    <<305, 305, 1, -232>>, <<307, 311, 2, -1>>, <<314, 328, 2, -1>>,
    <<331, 375, 2, -1>>, <<378, 382, 2, -1>>, <<383, 383, 1, -300>>,
    <<384, 384, 1, 195>>, <<387, 389, 2, -1>>, <<392, 392, 1, -1>>,
    <<396, 396, 1, -1>>, <<402, 402, 1, -1>>, <<405, 405, 1, 97>>,
    <<409, 409, 1, -1>>, <<410, 410, 1, 163>>, <<411, 411, 1, 42561>>,
    <<414, 414, 1, 130>>, <<417, 421, 2, -1>>, <<424, 424, 1, -1>>,
    <<429, 429, 1, -1>>, <<432, 432, 1, -1>>, <<436, 438, 2, -1>>,
    <<441, 441, 1, -1>>, <<445, 445, 1, -1>>, <<447, 447, 1, 56>>,
    <<453, 453, 1, -1>>, <<454, 454, 1, -2>>, <<456, 456, 1, -1>>,
    <<457, 457, 1, -2>>, <<459, 459, 1, -1>>, <<460, 460, 1, -2>>,
    <<462, 476, 2, -1>>, <<477, 477, 1, -79>>, <<479, 495, 2, -1>>,
    <<498, 498, 1, -1>>, <<499, 499, 1, -2>>, <<501, 501, 1, -1>>,
    <<505, 543, 2, -1>>, <<547, 563, 2, -1>>, <<572, 572, 1, -1>>,
    <<575, 576, 1, 10815>>, <<578, 578, 1, -1>>, <<583, 591, 2, -1>>,
    <<592, 592, 1, 10783>>, <<593, 593, 1, 10780>>, <<594, 594, 1, 10782>>,
    <<595, 595, 1, -210>>, <<596, 596, 1, -206>>, <<598, 599, 1, -205>>,
    <<601, 601, 1, -202>>, <<603, 603, 1, -203>>, <<604, 604, 1, 42319>>,
    <<608, 608, 1, -205>>, <<609, 609, 1, 42315>>, <<611, 611, 1, -207>>,
    <<612, 612, 1, 42343>>, <<613, 613, 1, 42280>>, <<614, 614, 1, 42308>>,
    <<616, 616, 1, -209>>, <<617, 617, 1, -211>>, <<618, 618, 1, 42308>>,
    <<619, 619, 1, 10743>>, <<620, 620, 1, 42305>>, <<623, 623, 1, -211>>,
    <<625, 625, 1, 10749>>, <<626, 626, 1, -213>>, <<629, 629, 1, -214>>,
    <<637, 637, 1, 10727>>, <<640, 640, 1, -218>>, <<642, 642, 1, 42307>>,
    <<643, 643, 1, -218>>, <<647, 647, 1, 42282>>, <<648, 648, 1, -218>>,
    <<649, 649, 1, -69>>, <<650, 651, 1, -217>>, <<652, 652, 1, -71>>,
    <<658, 658, 1, -219>>, <<669, 669, 1, 42261>>, <<670, 670, 1, 42258>>,
    <<837, 837, 1, 84>>, <<881, 883, 2, -1>>, <<887, 887, 1, -1>>,
    <<891, 893, 1, 130>>, <<940, 940, 1, -38>>, <<941, 943, 1, -37>>,
    <<945, 961, 1, -32>>, <<962, 962, 1, -31>>, <<963, 971, 1, -32>>,
    <<972, 972, 1, -64>>, <<973, 974, 1, -63>>, <<976, 976, 1, -62>>,
    <<977, 977, 1, -57>>, <<981, 981, 1, -47>>, <<982, 982, 1, -54>>,
    <<983, 983, 1, -8>>, <<985, 1007, 2, -1>>, <<1008, 1008, 1, -86>>,
    <<1009, 1009, 1, -80>>, <<1010, 1010, 1, 7>>, <<1011, 1011, 1, -116>>,
    <<1013, 1013, 1, -96>>, <<1016, 1016, 1, -1>>, <<1019, 1019, 1, -1>>,
    <<1072, 1103, 1, -32>>, <<1104, 1119, 1, -80>>, <<1121, 1153, 2, -1>>,
    <<1163, 1215, 2, -1>>, <<1218, 1230, 2, -1>>, <<1231, 1231, 1, -15>>,
    <<1233, 1327, 2, -1>>, <<1377, 1414, 1, -48>>, <<4304, 4346, 1, 3008>>,
    <<4349, 4351, 1, 3008>>, <<5112, 5117, 1, -8>>, <<7296, 7296, 1, -6254>>,
    <<7297, 7297, 1, -6253>>, <<7298, 7298, 1, -6244>>, <<7299, 7300, 1, -6242>>,
    <<7301, 7301, 1, -6243>>, <<7302, 7302, 1, -6236>>, <<7303, 7303, 1, -6181>>,
    <<7304, 7304, 1, 35266>>, <<7306, 7306, 1, -1>>, <<7545, 7545, 1, 35332>>,
    <<7549, 7549, 1, 3814>>, <<7566, 7566, 1, 35384>>, <<7681, 7829, 2, -1>>,
    <<7835, 7835, 1, -59>>, <<7841, 7935, 2, -1>>, <<7936, 7943, 1, 8>>,
    <<7952, 7957, 1, 8>>, <<7968, 7975, 1, 8>>, <<7984, 7991, 1, 8>>,
    <<8000, 8005, 1, 8>>, <<8017, 8023, 2, 8>>, <<8032, 8039, 1, 8>>,
    <<8048, 8049, 1, 74>>, <<8050, 8053, 1, 86>>, <<8054, 8055, 1, 100>>,
    <<8056, 8057, 1, 128>>, <<8058, 8059, 1, 112>>, <<8060, 8061, 1, 126>>,
    <<8112, 8113, 1, 8>>, <<8126, 8126, 1, -7205>>, <<8144, 8145, 1, 8>>,
    <<8160, 8161, 1, 8>>, <<8165, 8165, 1, 7>>, <<8526, 8526, 1, -28>>,
    <<8560, 8575, 1, -16>>, <<8580, 8580, 1, -1>>, <<9424, 9449, 1, -26>>,
    <<11312, 11359, 1, -48>>, <<11361, 11361, 1, -1>>, <<11365, 11365, 1, -10795>>,
    <<11366, 11366, 1, -10792>>, <<11368, 11372, 2, -1>>, <<11379, 11379, 1, -1>>,
    <<11382, 11382, 1, -1>>, <<11393, 11491, 2, -1>>, <<11500, 11502, 2, -1>>,
    <<11507, 11507, 1, -1>>, <<11520, 11557, 1, -7264>>, <<11559, 11559, 1, -7264>>,
    <<11565, 11565, 1, -7264>>, <<42561, 42605, 2, -1>>, <<42625, 42651, 2, -1>>,
    <<42787, 42799, 2, -1>>, <<42803, 42863, 2, -1>>, <<42874, 42876, 2, -1>>,
    <<42879, 42887, 2, -1>>, <<42892, 42892, 1, -1>>, <<42897, 42899, 2, -1>>,
    <<42900, 42900, 1, 48>>, <<42903, 42921, 2, -1>>, <<42933, 42947, 2, -1>>,
    <<42952, 42954, 2, -1>>, <<42957, 42971, 2, -1>>, <<42998, 42998, 1, -1>>,
    <<43859, 43859, 1, -928>>, <<43888, 43967, 1, -38864>>, <<65345, 65370, 1, -32>>,
    <<66600, 66639, 1, -40>>, <<66776, 66811, 1, -40>>, <<66967, 67003, 2, -39>>,
    <<66968, 66976, 2, -39>>, <<66980, 66992, 2, -39>>, <<66996, 67000, 2, -39>>,
    <<67004, 67004, 1, -39>>, <<68800, 68850, 1, -64>>, <<68976, 68997, 1, -32>>,
    <<71872, 71903, 1, -32>>, <<93792, 93823, 1, -32>>, <<93883, 93907, 1, -27>>,
    <<125218, 125251, 1, -34>>
  >>

SpecialCasing ==
  <<
    <<223, <<83, 83>> >>, <<329, <<700, 78>> >>, <<496, <<74, 780>> >>,
    <<912, <<921, 776, 769>> >>, <<944, <<933, 776, 769>> >>, <<1415, <<1333, 1362>> >>,
    <<7830, <<72, 817>> >>, <<7831, <<84, 776>> >>, <<7832, <<87, 778>> >>,
    <<7833, <<89, 778>> >>, <<7834, <<65, 702>> >>, <<8016, <<933, 787>> >>,
    <<8018, <<933, 787, 768>> >>, <<8020, <<933, 787, 769>> >>, <<8022, <<933, 787, 834>> >>,
    <<8064, <<7944, 921>> >>, <<8065, <<7945, 921>> >>, <<8066, <<7946, 921>> >>,
    <<8067, <<7947, 921>> >>, <<8068, <<7948, 921>> >>, <<8069, <<7949, 921>> >>,
    <<8070, <<7950, 921>> >>, <<8071, <<7951, 921>> >>, <<8072, <<7944, 921>> >>,
    <<8073, <<7945, 921>> >>, <<8074, <<7946, 921>> >>, <<8075, <<7947, 921>> >>,
    <<8076, <<7948, 921>> >>, <<8077, <<7949, 921>> >>, <<8078, <<7950, 921>> >>,
    <<8079, <<7951, 921>> >>, <<8080, <<7976, 921>> >>, <<8081, <<7977, 921>> >>,
    <<8082, <<7978, 921>> >>, <<8083, <<7979, 921>> >>, <<8084, <<7980, 921>> >>,
    <<8085, <<7981, 921>> >>, <<8086, <<7982, 921>> >>, <<8087, <<7983, 921>> >>,
    <<8088, <<7976, 921>> >>, <<8089, <<7977, 921>> >>, <<8090, <<7978, 921>> >>,
    <<8091, <<7979, 921>> >>, <<8092, <<7980, 921>> >>, <<8093, <<7981, 921>> >>,
    <<8094, <<7982, 921>> >>, <<8095, <<7983, 921>> >>, <<8096, <<8040, 921>> >>,
    <<8097, <<8041, 921>> >>, <<8098, <<8042, 921>> >>, <<8099, <<8043, 921>> >>,
    <<8100, <<8044, 921>> >>, <<8101, <<8045, 921>> >>, <<8102, <<8046, 921>> >>,
    <<8103, <<8047, 921>> >>, <<8104, <<8040, 921>> >>, <<8105, <<8041, 921>> >>,
    <<8106, <<8042, 921>> >>, <<8107, <<8043, 921>> >>, <<8108, <<8044, 921>> >>,
    <<8109, <<8045, 921>> >>, <<8110, <<8046, 921>> >>, <<8111, <<8047, 921>> >>,
    <<8114, <<8122, 921>> >>, <<8115, <<913, 921>> >>, <<8116, <<902, 921>> >>,
    <<8118, <<913, 834>> >>, <<8119, <<913, 834, 921>> >>, <<8124, <<913, 921>> >>,
    <<8130, <<8138, 921>> >>, <<8131, <<919, 921>> >>, <<8132, <<905, 921>> >>,
    <<8134, <<919, 834>> >>, <<8135, <<919, 834, 921>> >>, <<8140, <<919, 921>> >>,
    <<8146, <<921, 776, 768>> >>, <<8147, <<921, 776, 769>> >>, <<8150, <<921, 834>> >>,
    <<8151, <<921, 776, 834>> >>, <<8162, <<933, 776, 768>> >>, <<8163, <<933, 776, 769>> >>,
    <<8164, <<929, 787>> >>, <<8166, <<933, 834>> >>, <<8167, <<933, 776, 834>> >>,
    <<8178, <<8186, 921>> >>, <<8179, <<937, 921>> >>, <<8180, <<911, 921>> >>,
    <<8182, <<937, 834>> >>, <<8183, <<937, 834, 921>> >>, <<8188, <<937, 921>> >>,
    <<64256, <<70, 70>> >>, <<64257, <<70, 73>> >>, <<64258, <<70, 76>> >>,
    <<64259, <<70, 70, 73>> >>, <<64260, <<70, 70, 76>> >>, <<64261, <<83, 84>> >>,
    <<64262, <<83, 84>> >>, <<64275, <<1348, 1350>> >>, <<64276, <<1348, 1333>> >>,
    <<64277, <<1348, 1339>> >>, <<64278, <<1358, 1350>> >>, <<64279, <<1348, 1341>> >>
  >>

\* toUpperCase of one character: the characters it becomes; a character
\* without an upper case stays.
upperChar(c) ==
  IF \E i \in 1..Len(SpecialCasing) : SpecialCasing[i][1] = c
  THEN SpecialCasing[CHOOSE i \in 1..Len(SpecialCasing) : SpecialCasing[i][1] = c][2]
  ELSE IF \E i \in 1..Len(CaseRanges) :
            /\ CaseRanges[i][1] <= c
            /\ c <= CaseRanges[i][2]
            /\ (c - CaseRanges[i][1]) % CaseRanges[i][3] = 0
  THEN <<c + CaseRanges[CHOOSE i \in 1..Len(CaseRanges) :
                          /\ CaseRanges[i][1] <= c
                          /\ c <= CaseRanges[i][2]
                          /\ (c - CaseRanges[i][1]) % CaseRanges[i][3] = 0][4]>>
  ELSE <<c>>

\* code.toUpperCase(): the upper cases of its characters, one after the
\* other; the result can be longer than the code.
RECURSIVE toUpperCase(_)
toUpperCase(code) ==
  IF code = <<>> THEN <<>>
  ELSE upperChar(Head(code)) \o toUpperCase(Tail(code))

\* offerSchema.statics.findByCouponCode(code, platform, deviceId): findOne
\* by upper-cased code, active, window and platform; null when none; throws
\* when the offer is one-time and the device has claimed it.  The query
\* reads the clock twice: startDate is compared with the instant t of the
\* first new Date(), endDate with the instant tEnd of the second.
findByCouponCode(collection, code, platform, deviceId, t, tEnd) ==
  LET found == { o \in collection :
                   /\ o.couponCode = toUpperCase(code)
                   /\ o.isActive
                   /\ o.startDate <= t
                   /\ o.endDate >= tEnd
                   /\ platformFilter(o, platform) }
  IN IF found = {} THEN [kind |-> "null", offer |-> NoOffer]
     ELSE LET o == CHOOSE x \in found : TRUE IN
          IF o.isOneTimePerDevice /\ deviceId # NoDevice /\ hasDeviceClaimed(o, deviceId)
          THEN [kind |-> "throw", offer |-> NoOffer]
          ELSE [kind |-> "offer", offer |-> o.id]

\* calculateItemDiscount(originalPrice, offer) of routes/offer.js at instant
\* t: the discounted price of one item, in cents, for a price and amounts
\* given in cents.  An offer that is not valid returns the price as given.
calculateItemDiscount(originalPrice, o, t) ==
  IF ~isValid(o, t) THEN originalPrice
  ELSE RoundCents(
         CASE o.type = "percentage" ->
                LET discountedPrice ==
                      DMul(Dollars(originalPrice),
                           DSub(DInt(1), DDivInt(DInt(o.value), 100)))
                IN IF o.maxDiscountAmount # NULL /\ o.maxDiscountAmount # 0
                   THEN DMax(discountedPrice,
                             DSub(Dollars(originalPrice), Dollars(o.maxDiscountAmount)))
                   ELSE discountedPrice
           [] o.type = "fixed-amount" ->
                DMax(DZero, DSub(Dollars(originalPrice), Dollars(o.value)))
           [] o.type = "buy-one-get-one" -> DDivInt(Dollars(originalPrice), 2)
           [] OTHER -> Dollars(originalPrice))

\* The instants of n successive reads of the clock, the first not before
\* t: each new Date() gives the instant of its own call.
ClockReads(n, t) ==
  { ts \in [1..n -> t..MaxTime] : \A i \in 1..(n - 1) : ts[i] <= ts[i + 1] }

\* GET /items-with-offers, itemOffers.forEach: the offers of one item are
\* visited in the order of the list, and one replaces the best so far only
\* when its savings are strictly greater.  The savings are the double
\* item.price - discountedPrice, as subtracted, not rounded to a cent.
\* calculateItemDiscount reads offer.isValid, which reads the clock: ts holds
\* the instant of the read of each offer, in the order of the list.
RECURSIVE bestOfferLoop(_, _, _, _)
bestOfferLoop(itemOffers, price, best, ts) ==
  IF itemOffers = <<>> THEN best
  ELSE LET o == Head(itemOffers)
           discountedPrice == calculateItemDiscount(price, o, Head(ts))
           savings == DSub(Dollars(price), Dollars(discountedPrice))
       IN bestOfferLoop(Tail(itemOffers), price,
                        IF DLess(best.savings, savings)
                        THEN [offer |-> o.id, discountedPrice |-> discountedPrice,
                              savings |-> savings]
                        ELSE best,
                        Tail(ts))

\* GET /items-with-offers for one item: bestOffer = null, bestDiscountedPrice
\* = item.price, bestSavings = 0, then the loop, with the instants ts of its
\* reads of the clock.
selectBest(itemOffers, price, ts) ==
  bestOfferLoop(itemOffers, price,
                [offer |-> NoOffer, discountedPrice |-> price, savings |-> DZero], ts)

\* An offer of the collection that applies to every item and is valid at
\* instants 0 and 1.
BaseOffer(id, type, value, priority, isFeatured) ==
  Catalogued(Scoped(NewOffer(TRUE, FALSE, NULL, DefaultUserUsageLimit),
                    type, value, NULL, 0, {"all"}, {}),
             id, priority, isFeatured, <<78, 79, 78, 69>>)  \* "NONE"

\* The lists of offers of one item of 10.00 or of 0.35: two to NumOffers
\* offers with distinct ids, in every order, each a tenth or a fifth off,
\* of priority 1 or 2.
SelectInputs ==
  { [kind |-> "select", offers |-> list, price |-> price, ctx |-> NoCtx] :
      price \in {1000, 35},
      list \in UNION { { l \in [1..n -> { BaseOffer(id, tv[1], tv[2], pr, FALSE) :
                                            id \in 1..NumOffers,
                                            tv \in {<<"percentage", 10>>,
                                                    <<"percentage", 20>>,
                                                    <<"fixed-amount", 100>>},
                                            pr \in {1, 2} }] :
                           \A i, j \in 1..n : i # j => l[i].id # l[j].id } :
                       n \in 2..NumOffers } }

\* Collections of two offers and contexts for the filters of the listing.
FilterInputs ==
  { [kind |-> "find",
     offers |-> { Catalogued(
                    Scoped([NewOffer(active, cl[1], lc[1], DefaultUserUsageLimit)
                              EXCEPT !.usageCount = lc[2], !.claimedDevices = cl[2]],
                           "fixed-amount", 100, NULL, 0, pf, dt),
                    1, 1, FALSE, <<78, 79, 78, 69>>),  \* "NONE"
                  BaseOffer(2, "fixed-amount", 100, 1, FALSE) },
     price |-> 0,
     ctx |-> [NoCtx EXCEPT !.platform = cpf, !.deviceId = dev, !.deliveryType = cdt]] :
      active \in BOOLEAN,
      cl \in {<<FALSE, <<>> >>, <<FALSE, <<ClaimEntry("d1", "u1", 0)>> >>,
              <<TRUE, <<>> >>, <<TRUE, <<ClaimEntry("d1", "u1", 0)>> >>},
      lc \in {<<NULL, 0>>, <<1, 1>>},
      pf \in {{}, {"all"}, {"web"}}, dt \in {{}, {"pickup"}},
      cpf \in {"mobile", "web", "all", NoPlatform}, dev \in {"d1", NoDevice},
      cdt \in {"delivery", "pickup"} }

\* Collections of NumOffers valid offers for the order of the listing.
SortInputs ==
  { [kind |-> "find",
     offers |-> { BaseOffer(id, "fixed-amount", 100, pf[id][1], pf[id][2]) :
                    id \in 1..NumOffers },
     price |-> 0,
     ctx |-> [NoCtx EXCEPT !.platform = "mobile"]] :
      pf \in [1..NumOffers -> {1, 2} \X BOOLEAN] }

\* A collection with one coupon offer, of code SAVE or SS, unlimited or with
\* its usage cap reached, and look-ups by code.
CouponInputs ==
  { [kind |-> "coupon",
     offers |-> { Catalogued(
                    Scoped([NewOffer(active, cl[1], lc[1], DefaultUserUsageLimit)
                              EXCEPT !.claimedDevices = cl[2],
                                     !.usageCount = lc[2]],
                           "fixed-amount", 100, NULL, 0, pf, {}),
                    1, 1, FALSE, stored) },
     price |-> 0,
     ctx |-> [NoCtx EXCEPT !.platform = cpf, !.deviceId = dev],
     code |-> code] :
      \* "SAVE", "SS"
      stored \in {<<83, 65, 86, 69>>, <<83, 83>>},
      active \in BOOLEAN,
      cl \in {<<FALSE, <<>> >>, <<FALSE, <<ClaimEntry("d1", "u1", 0)>> >>,
              <<TRUE, <<>> >>, <<TRUE, <<ClaimEntry("d1", "u1", 0)>> >>},
      lc \in {<<NULL, 0>>, <<1, 1>>},
      pf \in {{"all"}, {"web"}},
      cpf \in {"mobile", NoPlatform}, dev \in {"d1", "d2", NoDevice},
      \* "save", "SAVE", "sAvE", "save1", "other", U+00DF (sharp s), "ss",
      \* U+00E9 (e acute)
      code \in {<<115, 97, 118, 101>>, <<83, 65, 86, 69>>, <<115, 65, 118, 69>>,
               <<115, 97, 118, 101, 49>>, <<111, 116, 104, 101, 114>>,
               <<223>>, <<115, 115>>, <<233>>} }

InitCatalogue ==
  /\ offer = NoDoc
  /\ deleted = FALSE
  /\ pc = [r \in Requests |-> "idle"]
  /\ op = [r \in Requests |-> "none"]
  /\ arg = [r \in Requests |-> NoArg]
  /\ resumedAt = [r \in Requests |-> 0]
  /\ doc = [r \in Requests |-> NoDoc]
  /\ result = [r \in Requests |-> "none"]
  /\ inp \in SelectInputs \cup FilterInputs \cup SortInputs \cup CouponInputs
  /\ now \in IF inp.kind = "select" THEN {0} ELSE 0..MaxTime
  /\ out = NoOut

\* GET /items-with-offers picks the best offer of one item: the loop reads
\* the clock once per offer, from now on; at holds the instants it read.
SelectBest ==
  /\ inp.kind = "select"
  /\ out = NoOut
  /\ \E ts \in ClockReads(Len(inp.offers), now) :
       out' = [kind |-> "select", at |-> ts,
               best |-> selectBest(inp.offers, inp.price, ts)]
  /\ UNCHANGED <<offer, deleted, now, pc, op, arg, resumedAt, doc, result, inp>>

\* The candidates of a context are listed, by findValidOffersForUser, which
\* reads the clock once, now, and by GET /, which reads it twice, now and
\* at a later instant; at holds the instants GET / read.
FindCandidates ==
  /\ inp.kind = "find"
  /\ out = NoOut
  /\ \E ts \in ClockReads(2, now) :
       out' = [kind |-> "find", at |-> ts,
               found |-> findValidOffersForUser(inp.offers, inp.ctx, inp.ctx.platform,
                                                inp.ctx.deviceId, now),
               listed |-> getOffers(inp.offers, inp.ctx.platform, inp.ctx.deviceId,
                                    ts[1], ts[2])]
  /\ UNCHANGED <<offer, deleted, now, pc, op, arg, resumedAt, doc, result, inp>>

\* An offer is looked up by its coupon code: the query reads the clock
\* twice, from now on; at holds the instants it read.
FindCoupon ==
  /\ inp.kind = "coupon"
  /\ out = NoOut
  /\ \E ts \in ClockReads(2, now) :
       out' = [kind |-> "coupon", at |-> ts,
               found |-> findByCouponCode(inp.offers, inp.code, inp.ctx.platform,
                                          inp.ctx.deviceId, ts[1], ts[2])]
  /\ UNCHANGED <<offer, deleted, now, pc, op, arg, resumedAt, doc, result, inp>>

NextCatalogue ==
  \/ SelectBest
  \/ FindCandidates
  \/ FindCoupon

SpecCatalogue == InitCatalogue /\ [][NextCatalogue]_vars

\* ------------------------------------------ pricing next to the ledger

\* The item of the menu that the requests price: 10.00.
PricedItem == [id |-> "f1", price |-> 1000]

\* The stored document with the fields GET /items-with-offers reads: an
\* offer of 1.00 off for every platform, applied to the item, with the
\* appliedToItems its find populated.
Priced(d) ==
  populate([Catalogued(Scoped(d, "fixed-amount", 100, NULL, 0, {"all"}, {}), 1, 1,
                       FALSE, <<78, 79, 78, 69>>)  \* "NONE"
              EXCEPT !.appliedToItems = {PricedItem.id}],
           {"appliedToItems"})

\* offerQuery of GET /items-with-offers, with `now` the instant tq the
\* handler started: active, inside the window, appliedToItems not empty,
\* and the platform filter.
offerQuery(o, platform, tq) ==
  /\ o.isActive
  /\ o.startDate <= tq
  /\ o.endDate >= tq
  /\ o.appliedToItems # {}
  /\ platformFilter(o, platform)

\* GET /items-with-offers on the document d its find read, for the instant
\* tq of its query (const now = new Date(), read before the find is sent)
\* and the instant t of the isValid of the pricing: the offers the query
\* found, those the device filter leaves, those applied to
\* the item, and the best of them.  No item is listed when no offer is
\* left; an item whose offers save nothing is listed without an offer.
PriceOutcome(d, a, tq, t) ==
  LET activeOffers == IF offerQuery(Priced(d), a.platform, tq)
                      THEN <<Priced(d)>> ELSE <<>>
      availableOffers ==
        IF a.deviceId # NoDevice
        THEN SelectSeq(activeOffers,
                       LAMBDA o : ~o.isOneTimePerDevice \/ ~hasDeviceClaimed(o, a.deviceId))
        ELSE activeOffers
      itemOffers == SelectSeq(availableOffers,
                              LAMBDA o : PricedItem.id \in o.appliedToItems)
  IN IF availableOffers = <<>> THEN "NoCandidate"
     ELSE IF selectBest(itemOffers, PricedItem.price, <<t>>).offer = NoOffer
     THEN "NoOffer"
     ELSE "Priced"

\* A variant of PriceWrite that records the usage of an offer it priced.
PriceWriteRecordingUsage(stored, d, a, tq, t) ==
  IF PriceOutcome(d, a, tq, t) = "Priced"
  THEN applyToUser(stored, d, a.userId, 0, 0, a.platform, a.deviceId, t, t)
  ELSE stored

\* What a pricing request leaves in the store: the handler of GET
\* /items-with-offers, calculateItemDiscount and the methods it calls assign
\* no field of the document and call no save() or update.
PriceWrite(stored, d, a, tq, t) == stored

\* A pricing request computes its answer.  The handler read the instant tq
\* of its query when it started, not after the instant its find read the
\* store, and it prices at an instant t after the find returned.
PriceOrder(r) ==
  /\ pc[r] = "loaded"
  /\ op[r] = "price"
  /\ \E tq \in 0..resumedAt[r], t \in resumedAt[r]..now :
       /\ result' = [result EXCEPT ![r] = PriceOutcome(doc[r], arg[r], tq, t)]
       /\ offer' = PriceWrite(offer, doc[r], arg[r], tq, t)
  /\ pc' = [pc EXCEPT ![r] = "done"]
  /\ resumedAt' = [resumedAt EXCEPT ![r] = 0]
  /\ doc' = [doc EXCEPT ![r] = NoDoc]
  /\ UNCHANGED <<deleted, now, op, arg, inp, out>>

\* Pricing requests next to claims and recorded usages.  A pricing request
\* names a platform and a device; the claims and the recorded usages are
\* those of one user on one device, without a platform.  A request that is
\* abandoned stays where it is.
NextBrowse ==
  \/ Tick
  \/ \E r \in Requests, d \in {"d1", NoDevice}, p \in Platforms :
       FindById(r, "price", [deviceId |-> d, userId |-> NoArg.userId, platform |-> p])
  \/ \E r \in Requests, d \in {"d1"} :
       FindById(r, "claim", [deviceId |-> d, userId |-> NoArg.userId, platform |-> NoPlatform])
  \/ \E r \in Requests, d \in {"d1"} :
       FindById(r, "recordUsage", [deviceId |-> d, userId |-> NoArg.userId, platform |-> NoPlatform])
  \/ \E r \in Requests : PriceOrder(r)
  \/ \E r \in Requests : Claim(r)
  \/ \E r \in Requests : RecordUsage(r)

SpecBrowse == Init /\ [][NextBrowse]_vars

\* ------------------------------------------- admin edits of the document

\* The bodies of PUT /:id: the keys the admin sends and their values.
EditBodies ==
  { [isActive |-> FALSE], [usageCount |-> 0], [usageHistory |-> <<>>],
    [claimedDevices |-> <<>>], [usageCount |-> 0, usageHistory |-> <<>>] }

\* the document arrays of the schema among the keys of the model
ArrayPaths == {"usageHistory", "claimedDevices"}

\* PUT /:id on the local copy d: Object.keys(req.body).forEach(key =>
\* offer[key] = req.body[key]).  A key whose value equals the copy's is not
\* modified.
editedPaths(d, body) == { k \in DOMAIN body : body[k] # d[k] }

\* the local copy after the assignments
edited(d, body) ==
  [k \in DOMAIN d |-> IF k \in DOMAIN body THEN body[k] ELSE d[k]]

\* await offer.save() of PUT /:id.  The copy is validated first, with the
\* validator of endDate (endDate > this.startDate) run on the copy as
\* assigned: a copy that fails is rejected with a ValidationError.  A
\* modified array is sent as $set of the whole array under the condition
\* that __v is still the copy's; when __v has moved the update matches
\* nothing and save() rejects with a VersionError.
EditOutcome(stored, d, body) ==
  IF ~(edited(d, body).endDate > edited(d, body).startDate) THEN "ValidationError"
  ELSE IF editedPaths(d, body) \cap ArrayPaths # {} /\ stored.version # d.version
  THEN "VersionError"
  ELSE "Updated"

\* A variant of EditWrite whose save writes the whole local copy over the
\* stored document.
EditWriteWholeDocument(stored, d, body) ==
  IF EditOutcome(stored, d, body) # "Updated" THEN stored
  ELSE edited(d, body)

\* What PUT /:id leaves in the store: nothing when save() rejects;
\* otherwise the modified keys are sent as $set and the other fields of the
\* stored document stay; __v is incremented when an array was sent.
EditWrite(stored, d, body) ==
  IF EditOutcome(stored, d, body) # "Updated" THEN stored
  ELSE [k \in DOMAIN stored |->
          IF k \in editedPaths(d, body) THEN body[k]
          ELSE IF k = "version" /\ editedPaths(d, body) \cap ArrayPaths # {}
          THEN stored.version + 1
          ELSE stored[k]]

\* PUT /:id: the assignments, the save and the response.  The copy is
\* validated before anything is sent; an update that finds the document
\* deleted matches nothing and save() rejects.
AdminEdit(r) ==
  /\ pc[r] = "loaded"
  /\ op[r] = "edit"
  /\ result' = [result EXCEPT ![r] =
                  IF deleted /\ EditOutcome(offer, doc[r], arg[r].body) # "ValidationError"
                  THEN "DocumentNotFound"
                  ELSE EditOutcome(offer, doc[r], arg[r].body)]
  /\ offer' = IF deleted THEN offer ELSE EditWrite(offer, doc[r], arg[r].body)
  /\ pc' = [pc EXCEPT ![r] = "done"]
  /\ resumedAt' = [resumedAt EXCEPT ![r] = 0]
  /\ doc' = [doc EXCEPT ![r] = NoDoc]
  /\ UNCHANGED <<deleted, now, op, arg, inp, out>>

\* DELETE /:id after findById: await offer.deleteOne() removes the document
\* from the store, whether or not another request removed it before, and
\* the handler responds 200 'Offer deleted successfully'.  A document that
\* is gone stays gone: the routes create offers under new ids.
AdminDelete(r) ==
  /\ pc[r] = "loaded"
  /\ op[r] = "delete"
  /\ deleted' = TRUE
  /\ result' = [result EXCEPT ![r] = "Deleted"]
  /\ pc' = [pc EXCEPT ![r] = "done"]
  /\ resumedAt' = [resumedAt EXCEPT ![r] = 0]
  /\ doc' = [doc EXCEPT ![r] = NoDoc]
  /\ UNCHANGED <<offer, now, op, arg, inp, out>>

\* Admin edits and deletions next to recorded usages and claims with an
\* order.
NextAdmin ==
  \/ Tick
  \/ \E r \in Requests, b \in EditBodies :
       FindById(r, "edit", [deviceId |-> NoDevice, userId |-> "u1",
                            platform |-> NoPlatform, body |-> b])
  \/ \E r \in Requests, d \in Devices, u \in Users, p \in Platforms :
       FindById(r, "claimWithOrder", [deviceId |-> d, userId |-> u, platform |-> p])
  \/ \E r \in Requests, d \in Devices \cup {NoDevice}, u \in Users, p \in Platforms :
       FindById(r, "recordUsage", [deviceId |-> d, userId |-> u, platform |-> p])
  \/ \E r \in Requests : FindById(r, "delete", NoArg)
  \/ \E r \in Requests : AdminEdit(r)
  \/ \E r \in Requests : AdminDelete(r)
  \/ \E r \in Requests : ClaimWithOrderClaim(r)
  \/ \E r \in Requests : ClaimWithOrderUsage(r)
  \/ \E r \in Requests : RecordUsage(r)

SpecAdmin == Init /\ [][NextAdmin]_vars

\* ------------------------------------------------ edits of the window

\* The documents Offer.create leaves in the store: POST / validates the
\* body with the schema, so only a window with endDate > startDate is stored.
CreatedOffers ==
  { o \in { [NewOffer(TRUE, FALSE, NULL, DefaultUserUsageLimit)
               EXCEPT !.startDate = s, !.endDate = e] :
              s \in 0..(MaxTime + 1), e \in 0..(MaxTime + 1) } :
      o.endDate > o.startDate }

\* The bodies of PUT /:id that move the window: startDate alone, endDate
\* alone, or both.
DateBodies ==
  { [startDate |-> s] : s \in 0..(MaxTime + 1) }
    \cup { [endDate |-> e] : e \in 0..(MaxTime + 1) }
    \cup { [startDate |-> s, endDate |-> e] :
             s \in 0..(MaxTime + 1), e \in 0..(MaxTime + 1) }

InitDates ==
  /\ offer \in CreatedOffers
  /\ now = 0
  /\ deleted = FALSE
  /\ pc = [r \in Requests |-> "idle"]
  /\ op = [r \in Requests |-> "none"]
  /\ arg = [r \in Requests |-> NoArg]
  /\ resumedAt = [r \in Requests |-> 0]
  /\ doc = [r \in Requests |-> NoDoc]
  /\ result = [r \in Requests |-> "none"]
  /\ inp = NoInp
  /\ out = NoOut

\* Admin edits of the window of a created offer, and its deletion.  The
\* handlers hold no lock between findById and save: another edit may read
\* and save in between.
NextDates ==
  \/ \E r \in Requests, b \in DateBodies :
       FindById(r, "edit", [deviceId |-> NoDevice, userId |-> "u1",
                            platform |-> NoPlatform, body |-> b])
  \/ \E r \in Requests : FindById(r, "delete", NoArg)
  \/ \E r \in Requests : AdminEdit(r)
  \/ \E r \in Requests : AdminDelete(r)

SpecDates == InitDates /\ [][NextDates]_vars

\* --------------------------- edits of other fields next to the ledger

\* The bodies of PUT /:id that carry no ledger field.
NonLedgerBodies == { [isActive |-> FALSE], [userUsageLimit |-> 2] }

\* Admin edits of non-ledger fields, and deletions, next to claims (of one
\* user) and recorded usages.
NextEditRace ==
  \/ Tick
  \/ \E r \in Requests, b \in NonLedgerBodies :
       FindById(r, "edit", [deviceId |-> NoDevice, userId |-> "u1",
                            platform |-> NoPlatform, body |-> b])
  \/ \E r \in Requests, d \in Devices :
       FindById(r, "claim", [deviceId |-> d, userId |-> NoArg.userId,
                             platform |-> NoPlatform])
  \/ \E r \in Requests, d \in Devices \cup {NoDevice}, u \in Users, p \in Platforms :
       FindById(r, "recordUsage", [deviceId |-> d, userId |-> u, platform |-> p])
  \/ \E r \in Requests : FindById(r, "delete", NoArg)
  \/ \E r \in Requests : AdminEdit(r)
  \/ \E r \in Requests : AdminDelete(r)
  \/ \E r \in Requests : Claim(r)
  \/ \E r \in Requests : RecordUsage(r)

SpecEditRace == Init /\ [][NextEditRace]_vars

\* ------------------------------------------- claim-with-order alone

\* The values of req.body.platform of POST /:id/claim-with-order: the route
\* does not validate the field.
BodyPlatforms == {"mobile", "tablet", NoPlatform}

\* Claim-with-order requests with any platform in the body.
NextOrderClaims ==
  \/ Tick
  \/ \E r \in Requests, d \in Devices, u \in Users, p \in BodyPlatforms :
       FindById(r, "claimWithOrder", [deviceId |-> d, userId |-> u, platform |-> p])
  \/ \E r \in Requests : ClaimWithOrderClaim(r)
  \/ \E r \in Requests : ClaimWithOrderUsage(r)

SpecOrderClaims == Init /\ [][NextOrderClaims]_vars

\* ---------------------------------------------------------------- claims

\* number of elements of a sequence that satisfy a test
\* the amount of n/d cents to the nearest cent, a half cent going up
NearestCent(n, d) == (2 * n + d) \div (2 * d)

Count(seq, Test(_)) == Cardinality({i \in 1..Len(seq) : Test(seq[i])})

ClaimsOf(deviceId) ==
  Count(offer.claimedDevices, LAMBDA c : c.deviceId = deviceId)

UsesBy(userId) ==
  Count(offer.usageHistory, LAMBDA u : u.user = userId)

\* C1: when every request was a Claim for the same device on a one-time
\* offer that the device had not claimed, and each ended in success or in
\* AlreadyClaimed, then exactly one succeeded and claimedDevices holds
\* exactly one entry for the device.
C1_ExactlyOneClaimSucceeds ==
  \A d \in Devices :
    (\A r \in Requests : /\ pc[r] = "done"
                         /\ op[r] = "claim"
                         /\ arg[r].deviceId = d
                         /\ result[r] \in {"Success", "AlreadyClaimed"})
    => /\ Cardinality({r \in Requests : result[r] = "Success"}) = 1
       /\ ClaimsOf(d) = 1

\* C2: claimedDevices never holds two entries with the same deviceId.
C2_NoDuplicateDevice ==
  \A i, j \in 1..Len(offer.claimedDevices) :
    i # j => offer.claimedDevices[i].deviceId # offer.claimedDevices[j].deviceId

\* C3: usageCount never exceeds a usageLimit that is set.
C3_UsageCountWithinLimit ==
  offer.usageLimit # NULL => offer.usageCount <= offer.usageLimit

\* C4: once every request was a RecordUsage and all have completed,
\* usageCount has grown by their number and usageHistory has gained as many
\* entries.
C4_NoLostUsage ==
  (\A r \in Requests : pc[r] = "done" /\ op[r] = "recordUsage" /\ result[r] = "Success")
  => /\ offer.usageCount = NumRequests
     /\ Len(offer.usageHistory) = NumRequests

\* C5: the step in which a Claim answers AlreadyClaimed leaves the stored
\* claimedDevices as it was.
C5_AlreadyClaimedLeavesLedger ==
  [][\A r \in Requests :
       (op[r] = "claim" /\ result[r] = "none" /\ result'[r] = "AlreadyClaimed")
       => offer'.claimedDevices = offer.claimedDevices]_vars

\* C5 witness: a Claim has answered AlreadyClaimed for a device the ledger holds.
C5_Witness ==
  \E r \in Requests : /\ op[r] = "claim"
                      /\ result[r] = "AlreadyClaimed"
                      /\ ClaimsOf(arg[r].deviceId) = 1

\* C6: no user has more usageHistory entries than userUsageLimit.
C6_UserWithinUserLimit ==
  \A u \in Users : UsesBy(u) <= offer.userUsageLimit

\* The seven checks of an offer o for a context c at instant t.
CheckWindow(o, t) == o.isActive /\ o.startDate <= t /\ t <= o.endDate
CheckUsageCap(o) == o.usageLimit = NULL \/ o.usageCount < o.usageLimit
CheckUserCap(o, c) ==
  Count(o.usageHistory, LAMBDA u : u.user = c.userId) < o.userUsageLimit
CheckDevice(o, c) ==
  ~(o.isOneTimePerDevice
    /\ Count(o.claimedDevices, LAMBDA e : e.deviceId = c.deviceId) > 0)
CheckPlatform(o, c) ==
  o.platforms = {} \/ "all" \in o.platforms \/ c.platform \in o.platforms
CheckDelivery(o, c) == o.deliveryTypes = {} \/ c.deliveryType \in o.deliveryTypes
CheckMinOrder(o, c) == c.subtotal >= o.minOrderAmount

AllChecksPass(o, c, t) ==
  /\ CheckWindow(o, t) /\ CheckUsageCap(o) /\ CheckUserCap(o, c) /\ CheckDevice(o, c)
  /\ CheckPlatform(o, c) /\ CheckDelivery(o, c) /\ CheckMinOrder(o, c)

Eligible == out.canUserUse /\ out.isValidForPlatform /\ out.calc.valid

\* C7 as stated, for the checks whose rejection carries a reason: the offer
\* is eligible exactly when all seven checks pass, and a rejection by
\* calculateDiscount names the first failing check in the order delivery
\* type, minimum order: an offer failing both reports DeliveryTypeMismatch.
\* It fails: the code checks the minimum order first.
C7_ReasonDeliveryBeforeMinOrder ==
  out.kind = "evaluate" =>
    /\ Eligible <=> AllChecksPass(inp.offer, inp.ctx, now)
    /\ ~out.calc.valid =>
         out.calc.reason = IF ~CheckDelivery(inp.offer, inp.ctx)
                           THEN "DeliveryTypeMismatch" ELSE "MinOrderNotMet"

\* C8: isValid implies active, inside the window and under the usage cap;
\* an active offer under its cap is valid at startDate and at endDate, and
\* no offer is valid after endDate.
C8_ValidWindowInclusive ==
  out.kind = "isValid" =>
    /\ out.value => CheckWindow(inp.offer, now) /\ CheckUsageCap(inp.offer)
    /\ (inp.offer.isActive /\ CheckUsageCap(inp.offer)
        /\ inp.offer.endDate > inp.offer.startDate
        /\ now \in {inp.offer.startDate, inp.offer.endDate}) => out.value
    /\ now > inp.offer.endDate => ~out.value

\* C8 witness: an offer was found valid at the instant of its endDate.
C8_Witness ==
  /\ out.kind = "isValid"
  /\ now = inp.offer.endDate
  /\ inp.offer.endDate > inp.offer.startDate
  /\ out.value

\* C9: a percentage offer gives subtotal * value / 100, and the smaller of
\* that and maxDiscountAmount for every maxDiscountAmount that is set.
C9_PercentageCapped ==
  (out.kind = "price" /\ inp.offer.type = "percentage" /\ out.calc.valid) =>
    out.calc.discount =
      IF inp.offer.maxDiscountAmount = NULL
      THEN NearestCent(inp.ctx.subtotal * inp.offer.value, 100)
      ELSE Min(NearestCent(inp.ctx.subtotal * inp.offer.value, 100),
               inp.offer.maxDiscountAmount)

\* C10: a fixed-amount offer gives min(value, subtotal), never negative,
\* never more than the subtotal, whatever maxDiscountAmount is.
C10_FixedAmountMin ==
  (out.kind = "price" /\ inp.offer.type = "fixed-amount" /\ out.calc.valid) =>
    /\ out.calc.discount = Min(inp.offer.value, inp.ctx.subtotal)
    /\ out.calc.discount >= 0
    /\ out.calc.discount <= inp.ctx.subtotal

\* C10 witness: a fixed amount above the subtotal was priced at the
\* subtotal, above the offer's maxDiscountAmount.
C10_Witness ==
  /\ out.kind = "price"
  /\ inp.offer.type = "fixed-amount"
  /\ out.calc.valid
  /\ inp.offer.value > inp.ctx.subtotal
  /\ inp.offer.maxDiscountAmount # NULL
  /\ inp.offer.maxDiscountAmount < inp.ctx.subtotal
  /\ out.calc.discount = inp.ctx.subtotal

\* the sum the claims state for buy-one-get-one: over the lines whose
\* foodItem is in applied, floor(quantity / 2) * unitPrice
RECURSIVE BogoSum(_, _)
BogoSum(items, applied) ==
  IF items = <<>> THEN 0
  ELSE (IF Head(items).foodItem \in applied
        THEN (Head(items).quantity \div 2) * Head(items).unitPrice ELSE 0)
       + BogoSum(Tail(items), applied)

\* C11 as stated: a buy-one-get-one offer gives the sum over the lines
\* whose foodItem is in appliedToItems of floor(quantity / 2) * unitPrice,
\* the other lines giving 0; one line of unit price 10.00 gives 0, 0, 10,
\* 10, 20, 20 for the quantities 0 to 5.  It fails on a document whose
\* appliedToItems is populated, which gives 0 for every order.
C11_BogoFloorHalf ==
  (out.kind = "price" /\ inp.offer.type = "buy-one-get-one" /\ out.calc.valid) =>
    /\ out.calc.discount = BogoSum(inp.ctx.items, inp.offer.appliedToItems)
    /\ \A q \in 0..5 :
         (inp.offer.appliedToItems = {"f1"}
          /\ inp.ctx.items = <<[foodItem |-> "f1", quantity |-> q, unitPrice |-> 1000]>>)
         => out.calc.discount = <<0, 0, 1000, 1000, 2000, 2000>>[q + 1]

\* sum of the individual prices of comboItems
RECURSIVE ComboSum(_)
ComboSum(comboItems) ==
  IF comboItems = <<>> THEN 0
  ELSE Head(comboItems).price * Head(comboItems).quantity + ComboSum(Tail(comboItems))

\* C12: a combo offer gives max(0, sum of the individual prices of
\* comboItems - comboPrice).
C12_ComboSaving ==
  (out.kind = "price" /\ inp.offer.type = "combo" /\ out.calc.valid) =>
    out.calc.discount =
      IF ComboSum(inp.offer.comboItems) > inp.offer.comboPrice
      THEN ComboSum(inp.offer.comboItems) - inp.offer.comboPrice ELSE 0

\* C13: a free-delivery offer gives the delivery fee the caller supplied.
C13_FreeDeliveryIsCallerFee ==
  (out.kind = "price" /\ inp.offer.type = "free-delivery" /\ out.calc.valid) =>
    out.calc.discount = inp.ctx.deliveryFee

\* the savings GET /items-with-offers computes for the i-th offer of an
\* item, at the instant the loop read the clock for it
SavingsOf(i) ==
  DSub(Dollars(inp.price),
       Dollars(calculateItemDiscount(inp.price, inp.offers[i], out.at[i])))

\* the i-th offer is selected before the j-th: greater discount, then higher
\* priority, then more recent creation
Preferred(i, j) ==
  LET a == inp.offers[i]
      b == inp.offers[j]
  IN \/ DLess(SavingsOf(j), SavingsOf(i))
     \/ SavingsOf(i) = SavingsOf(j) /\ a.priority > b.priority
     \/ SavingsOf(i) = SavingsOf(j) /\ a.priority = b.priority
        /\ a.createdAt > b.createdAt

\* C14: among the offers of an item the one with the greatest discount is
\* chosen, on equal discount the one of higher priority, on equal priority
\* the most recent, whatever the order of the list; the item's savings are
\* that offer's discount.  An item none of whose offers saves anything has
\* no offer.
C14_BestOfferByDiscountPriorityRecency ==
  out.kind = "select" =>
    IF \A i \in 1..Len(inp.offers) : ~DLess(DZero, SavingsOf(i))
    THEN out.best.offer = NoOffer
    ELSE
    \E i \in 1..Len(inp.offers) :
      /\ out.best.offer = inp.offers[i].id
      /\ out.best.savings = SavingsOf(i)
      /\ \A j \in 1..Len(inp.offers) : j # i => Preferred(i, j)

\* what the claims state of a candidate o for context c at instant t
IsCandidate(o, c, t) ==
  /\ o.isActive
  /\ o.startDate <= t
  /\ t <= o.endDate
  /\ (c.platform \in {NoPlatform, "all"} \/ o.platforms = {}
      \/ "all" \in o.platforms \/ c.platform \in o.platforms)
  /\ (o.deliveryTypes = {} \/ c.deliveryType \in o.deliveryTypes)
  /\ ~(c.deviceId # NoDevice /\ o.isOneTimePerDevice
       /\ \E k \in 1..Len(o.claimedDevices) : o.claimedDevices[k].deviceId = c.deviceId)

\* C15: the candidates returned are exactly the active offers inside their
\* window whose platforms and deliveryTypes match the context, without the
\* one-time offers the given device has claimed.
C15_CandidatesExactlyMatching ==
  out.kind = "find" =>
    { out.found[i].id : i \in 1..Len(out.found) }
      = { o.id : o \in { x \in inp.offers : IsCandidate(x, inp.ctx, now) } }

\* C16: the candidates are sorted by priority descending, then isFeatured
\* descending, then createdAt descending.
C16_SortedPriorityFeaturedCreatedAt ==
  out.kind = "find" =>
    \A i \in 1..(Len(out.found) - 1) :
      LET a == out.found[i]
          b == out.found[i + 1]
      IN \/ a.priority > b.priority
         \/ a.priority = b.priority /\ a.isFeatured /\ ~b.isFeatured
         \/ a.priority = b.priority /\ a.isFeatured = b.isFeatured
            /\ a.createdAt >= b.createdAt

\* C18: looking up an offer by coupon code for a device that already
\* claimed it gives a result and raises nothing.
C18_LookupNeverThrows ==
  out.kind = "coupon" => out.found.kind # "throw"

\* the claims and the recorded usages that were answered with success
LedgerWriters ==
  { r \in Requests : /\ op[r] \in {"claim", "recordUsage"}
                     /\ pc[r] = "done"
                     /\ result[r] = "Success" }

\* C17: a step changes the stored offer only when it is the write of a
\* Claim or of a RecordUsage, and then only its ledger: reading the offer,
\* and listing, evaluating, pricing and selecting on what was read, leave
\* every field as it was.  Whatever pricing requests ran or stopped half
\* way, the store holds what the claims and the recorded usages wrote and
\* nothing else: one usageHistory entry per recorded usage, each carrying
\* its order, claimedDevices entries of their devices only, and an untouched
\* document while none of them has written.
C17_PricingLeavesStore ==
  /\ [][/\ offer' # offer =>
             \E r \in Requests : /\ op[r] \in {"claim", "recordUsage"}
                                 /\ pc[r] = "loaded"
                                 /\ pc'[r] = "done"
        /\ \A k \in DOMAIN offer \ {"usageCount", "usageHistory", "claimedDevices",
                                     "version"} : offer'[k] = offer[k]]_vars
  /\ [](/\ Len(offer.usageHistory)
           = Cardinality({ r \in LedgerWriters : op[r] = "recordUsage" })
        /\ \A i \in 1..Len(offer.usageHistory) :
             /\ offer.usageHistory[i].order \in LedgerWriters
             /\ op[offer.usageHistory[i].order] = "recordUsage"
        /\ \A i \in 1..Len(offer.claimedDevices) :
             \E r \in LedgerWriters :
               arg[r].deviceId = offer.claimedDevices[i].deviceId
        /\ LedgerWriters = {} =>
             /\ offer.usageCount = 0
             /\ offer.usageHistory = <<>>
             /\ offer.claimedDevices = <<>>
             /\ offer.version = 0)

\* C17 witness: a pricing request has priced the offer, another request has
\* recorded a usage, and the ledger holds that usage alone.
C17_Witness ==
  /\ \E r \in Requests : op[r] = "price" /\ pc[r] = "done" /\ result[r] = "Priced"
  /\ \E r \in Requests : op[r] = "recordUsage" /\ pc[r] = "done"
  /\ Len(offer.usageHistory) = 1
  /\ offer.usageCount = 1

\* C19: no step takes the stored usageCount to a smaller value.
C19_UsageCountNeverDecreases ==
  [][offer'.usageCount >= offer.usageCount]_vars

\* C20: in every step the stored usageHistory before the step is a prefix of
\* the stored usageHistory after it.
C20_UsageHistoryAppendOnly ==
  [][/\ Len(offer'.usageHistory) >= Len(offer.usageHistory)
     /\ SubSeq(offer'.usageHistory, 1, Len(offer.usageHistory)) = offer.usageHistory]_vars

\* C21 as stated: the platform check passes exactly when platforms is
\* empty, holds "all" or holds the request's platform, whatever the request.
C21_PlatformCheckExact ==
  out.kind = "platform" =>
    /\ out.isValidForPlatform <=> CheckPlatform(inp.offer, inp.ctx)
    /\ out.matched <=> CheckPlatform(inp.offer, inp.ctx)

\* C21 amended: for a request that names mobile or web the platform check
\* passes exactly when platforms is empty, holds "all" or holds the request's
\* platform; a request that names no platform passes every offer, and a
\* request for "all" is not filtered by the queries.
C21_PlatformCheckForNamedPlatform ==
  out.kind = "platform" =>
    /\ inp.ctx.platform \in {"mobile", "web"} =>
         /\ out.isValidForPlatform <=> CheckPlatform(inp.offer, inp.ctx)
         /\ out.matched <=> CheckPlatform(inp.offer, inp.ctx)
    /\ inp.ctx.platform = NoPlatform => out.isValidForPlatform /\ out.matched
    /\ inp.ctx.platform = "all" =>
         /\ out.matched
         /\ out.isValidForPlatform <=> CheckPlatform(inp.offer, inp.ctx)

\* C21 witness: a mobile request was checked against an offer for "all" and
\* passed.
C21_Witness ==
  /\ out.kind = "platform"
  /\ inp.ctx.platform = "mobile"
  /\ inp.offer.platforms = {"all"}
  /\ out.isValidForPlatform
  /\ out.matched

\* C22: through every sequence of create and admin-edit operations the
\* stored offer has endDate > startDate; an edit whose copy would violate it,
\* an edit of startDate alone or of endDate alone included, is rejected with
\* a validation error and leaves the stored offer unchanged.
C22_EndAfterStart ==
  /\ offer.endDate > offer.startDate
  /\ [][/\ offer'.endDate > offer'.startDate
        /\ \A r \in Requests :
             (op[r] = "edit" /\ pc[r] = "loaded" /\ pc'[r] = "done"
              /\ ~(edited(doc[r], arg[r].body).endDate
                     > edited(doc[r], arg[r].body).startDate))
             => (result'[r] = "ValidationError" /\ offer' = offer)]_vars

\* C23: the step of an admin edit leaves usageCount, claimedDevices and
\* usageHistory of the stored offer as they were.
C23_EditLeavesLedgerFields ==
  [][\A r \in Requests :
       (op[r] = "edit" /\ pc[r] = "loaded" /\ pc'[r] = "done")
       => /\ offer'.usageCount = offer.usageCount
          /\ offer'.claimedDevices = offer.claimedDevices
          /\ offer'.usageHistory = offer.usageHistory]_vars

\* the recorded usages that have completed with success
DoneUsages ==
  { r \in Requests : op[r] = "recordUsage" /\ pc[r] = "done" /\ result[r] = "Success" }

\* C24: next to admin edits of non-ledger fields, as long as the offer is
\* in the store, every claim that answered success has its device stored,
\* every recorded usage that succeeded has its entry stored, a single such
\* usage has raised usageCount by one, and the fields of every edit that was
\* saved hold the admin's values.
C24_EditAndLedgerBothStored ==
  ~deleted =>
  /\ \A r \in Requests :
       (op[r] = "claim" /\ pc[r] = "done" /\ result[r] = "Success")
       => ClaimsOf(arg[r].deviceId) >= 1
  /\ \A r \in DoneUsages :
       Count(offer.usageHistory,
             LAMBDA u : u.order = r /\ u.user = arg[r].userId) = 1
  /\ DoneUsages # {} => offer.usageCount >= 1
  /\ Cardinality(DoneUsages) = 1 => offer.usageCount = 1
  /\ \A r \in Requests :
       (op[r] = "edit" /\ pc[r] = "done" /\ result[r] = "Updated")
       => \A k \in DOMAIN arg[r].body : offer[k] = arg[r].body[k]

\* C24 witness: an edit that switched the offer off was saved, a claim
\* answered success, and both the device and isActive = false are stored.
C24_Witness ==
  /\ \E r \in Requests : /\ op[r] = "edit" /\ pc[r] = "done"
                         /\ result[r] = "Updated"
                         /\ arg[r].body = [isActive |-> FALSE]
  /\ \E r \in Requests : /\ op[r] = "claim" /\ pc[r] = "done"
                         /\ result[r] = "Success"
                         /\ ClaimsOf(arg[r].deviceId) = 1
  /\ ~offer.isActive
  /\ ~deleted

\* C25: every Claim that answered success has its device in claimedDevices,
\* whatever other claims, for other devices, wrote around it.
C25_SuccessfulClaimStored ==
  \A r \in Requests :
    (op[r] = "claim" /\ pc[r] = "done" /\ result[r] = "Success")
    => \E i \in 1..Len(offer.claimedDevices) :
         /\ offer.claimedDevices[i].deviceId = arg[r].deviceId
         /\ offer.claimedDevices[i].userId = arg[r].userId

\* C25 witness: two claims for distinct devices on the same one-time offer
\* both answered success and both devices are stored.
C25_Witness ==
  /\ offer.isOneTimePerDevice
  /\ \E r, q \in Requests :
       /\ op[r] = "claim" /\ pc[r] = "done" /\ result[r] = "Success"
       /\ op[q] = "claim" /\ pc[q] = "done" /\ result[q] = "Success"
       /\ arg[r].deviceId = "d1" /\ arg[q].deviceId = "d2"
  /\ ClaimsOf("d1") = 1
  /\ ClaimsOf("d2") = 1

\* C26: on a one-time-per-device offer usageHistory holds at most one entry
\* per device id, and every entry carries a device id that is among
\* claimedDevices.
C26_OneUsePerClaimedDevice ==
  offer.isOneTimePerDevice =>
    /\ \A d \in Devices :
         Count(offer.usageHistory, LAMBDA u : u.deviceId = d) <= 1
    /\ \A i \in 1..Len(offer.usageHistory) :
         /\ offer.usageHistory[i].deviceId # NoDevice
         /\ ClaimsOf(offer.usageHistory[i].deviceId) >= 1

\* C27: usageCount equals the number of entries of usageHistory.
C27_UsageCountIsHistoryLength ==
  offer.usageCount = Len(offer.usageHistory)

\* C29: a step of the claim endpoint or of the claim-with-order endpoint
\* that appends to claimedDevices is the step of a request that read the
\* offer valid: active, inside its window, under its usage cap.
C29_ClaimOnlyOnValidOffer ==
  [][\A r \in Requests :
       (/\ op[r] \in {"claim", "claimWithOrder"}
        /\ pc[r] = "loaded"
        /\ pc'[r] # "loaded"
        /\ Len(offer'.claimedDevices) > Len(offer.claimedDevices))
       => \E t \in resumedAt[r]..now : isValid(doc[r], t)]_vars

\* C30: the offer a coupon-code look-up returns is valid at the instant of
\* the look-up, the usage cap included.
C30_CouponOfferIsValid ==
  (out.kind = "coupon" /\ out.found.kind = "offer")
  => \A o \in inp.offers : o.id = out.found.offer => isValid(o, now)

\* the responses of claim-with-order that report a failure
OrderClaimFailures == {"NotOneTime", "AlreadyClaimed", "Failed"}

\* C28: claim-with-order is all-or-nothing.  A request that answered success
\* has its device in claimedDevices and exactly one usageHistory entry for
\* its order; a device whose every request has answered with a failure is
\* neither in claimedDevices nor in usageHistory.
C28_ClaimWithOrderAllOrNothing ==
  /\ \A r \in Requests :
       (op[r] = "claimWithOrder" /\ pc[r] = "done" /\ result[r] = "Success")
       => /\ ClaimsOf(arg[r].deviceId) >= 1
          /\ Count(offer.usageHistory, LAMBDA u : u.order = r) = 1
  /\ \A d \in Devices :
       (/\ \E r \in Requests : op[r] = "claimWithOrder" /\ arg[r].deviceId = d
        /\ \A r \in Requests :
             (op[r] = "claimWithOrder" /\ arg[r].deviceId = d)
             => (pc[r] = "done" /\ result[r] \in OrderClaimFailures))
       => /\ ClaimsOf(d) = 0
          /\ Count(offer.usageHistory, LAMBDA u : u.deviceId = d) = 0

====
